---- MODULE Spec2Model ----
(***************************************************************************)
(* Model of the gistless secret-collection backend of AuthGHPages:         *)
(* the in-memory session store (features/sessions-gistless.js), the        *)
(* team access check (features/team-access-gistless.js), the value         *)
(* processing (features/encryption-gistless.js), the Vault client          *)
(* (features/vault-operations-gistless.js), the request handlers of        *)
(* index.js and their routes, and the gist flow with its value encryption  *)
(* (fetchGist, updateGist, encryptValue, decryptValue of unnamed/part_000).*)
(* A handler is split at its await points: every piece between             *)
(* two awaits is one atomic action, as the Node.js event loop runs it.     *)
(*                                                                         *)
(* Strings that the code parses are sequences of one-character strings;    *)
(* a secret key name is therefore a sequence of characters.  Timestamps    *)
(* (Date.now, toISOString) are left out of the records: no code path       *)
(* reads them back.                                                        *)
(***************************************************************************)
EXTENDS Integers, Sequences, FiniteSets, TLC

(***************************************************************************)
(* Bounds of the model.                                                    *)
(***************************************************************************)
\* number of sessions that are ever created (generateSessionId draws a
\* fresh identifier for each)
MaxSessions == 1
\* number of requests that can be in flight at the same time
MaxReqs == 2
\* number of sessions that are ever created where the store is checked
\* with several sessions side by side
MaxStoreSessions == 3

SessionIds == 1..MaxSessions
Reqs == 1..MaxReqs

(***************************************************************************)
(* Small input sets.                                                       *)
(***************************************************************************)
Comma == ","
Space == " "
\* a falsy string: JavaScript's undefined and '' take the same branch in
\* every test the code makes on these fields (!x, x || '')
Absent == ""

KeyA == <<"a">>
KeyB == <<"b">>

\* metadata.secrets_needs_input as sent by the pipeline
KeyListInputs ==
    { <<>>,
      <<Comma>>,
      <<Space, Comma, Space>>,
      <<"a">>,
      <<"a", Comma, "b">>,
      <<Space, "a", Space, Comma, "b">>,
      <<"a", Comma, "a">> }

\* metadata.workflow.run_id
RunIdInputs == {Absent, "r1"}

\* req.user.login of the authenticated user
Users == {"alice", "bob"}

\* req.body.key and req.body.value of a submission
SubmitKeys == {<<>>, KeyA, KeyB}
SubmitValues == {<<>>, <<"v">>}

\* the rest of the registration metadata that the handlers read
Contexts ==
    { [build_env |-> "dev", application_namespace |-> <<"n">>,
       encryption_key |-> <<"k">>, listOfKeysToBeEncrypted |-> <<"a">>,
       vault_url |-> "vault/ms", VAULT_TOKEN |-> "vt", GIT_TOKEN |-> "gt",
       ORG_NAME |-> "DevOps"],
      [build_env |-> "prod", application_namespace |-> <<"n">>,
       encryption_key |-> <<"k">>, listOfKeysToBeEncrypted |-> <<>>,
       vault_url |-> "vault/ms", VAULT_TOKEN |-> Absent, GIT_TOKEN |-> Absent,
       ORG_NAME |-> "DevOps"],
      [build_env |-> "hodc", application_namespace |-> <<"n">>,
       encryption_key |-> <<"k">>, listOfKeysToBeEncrypted |-> <<"b">>,
       vault_url |-> "vault/ms", VAULT_TOKEN |-> "vt", GIT_TOKEN |-> "gt",
       ORG_NAME |-> Absent] }

(***************************************************************************)
(* String helpers: String.prototype.split(','), trim, toLowerCase,         *)
(* includes, and Array.prototype.filter / includes.                        *)
(***************************************************************************)
RECURSIVE TrimLeft(_)
TrimLeft(s) ==
    IF s # <<>> /\ Head(s) = Space THEN TrimLeft(Tail(s)) ELSE s

RECURSIVE TrimRight(_)
TrimRight(s) ==
    IF s # <<>> /\ s[Len(s)] = Space
    THEN TrimRight(SubSeq(s, 1, Len(s) - 1))
    ELSE s

Trim(s) == TrimRight(TrimLeft(s))

\* s.split(','): the pieces between the commas, empty pieces included
RECURSIVE SplitFrom(_, _, _)
SplitFrom(s, i, cur) ==
    IF i > Len(s) THEN <<cur>>
    ELSE IF s[i] = Comma THEN <<cur>> \o SplitFrom(s, i + 1, <<>>)
    ELSE SplitFrom(s, i + 1, Append(cur, s[i]))

Split(s) == SplitFrom(s, 1, <<>>)

IsTruthy(k) == k # <<>>

\* str.split(',').map(k => k.trim()).filter(Boolean)
ParseKeyList(str) ==
    LET pieces == Split(str)
        trimmed == [i \in 1..Len(pieces) |-> Trim(pieces[i])]
    IN  SelectSeq(trimmed, IsTruthy)

Includes(seq, x) == \E i \in 1..Len(seq) : seq[i] = x

\* mutant of FilterOut: the predicate inverted, arr.filter(k => k === key)
RECURSIVE FilterOut_Inverted(_, _)
FilterOut_Inverted(seq, key) ==
    IF seq = <<>> THEN <<>>
    ELSE IF Head(seq) # key THEN FilterOut_Inverted(Tail(seq), key)
    ELSE <<Head(seq)>> \o FilterOut_Inverted(Tail(seq), key)

\* arr.filter(k => k !== key)
RECURSIVE FilterOut(_, _)
FilterOut(seq, key) ==
    IF seq = <<>> THEN <<>>
    ELSE IF Head(seq) = key THEN FilterOut(Tail(seq), key)
    ELSE <<Head(seq)>> \o FilterOut(Tail(seq), key)

Range(seq) == {seq[i] : i \in 1..Len(seq)}

(***************************************************************************)
(* Session store: features/sessions-gistless.js                            *)
(***************************************************************************)
\* the session object that createSession builds.  original is the parsed
\* key list as it was at creation (the object keeps it only as the initial
\* value of secrets.pending); ctx is the part of metadata read later.
createSession(sessionId, metadata) ==
    LET pendingKeys == ParseKeyList(metadata.secrets_needs_input)
    IN  [ sessionId |-> sessionId,
          status    |-> "awaiting_input",
          pending   |-> pendingKeys,
          completed |-> <<>>,
          keyStatus |-> [k \in Range(pendingKeys) |-> "pending"],
          audit     |-> <<>>,
          runId     |-> metadata.run_id,
          keysToEncrypt |-> ParseKeyList(metadata.ctx.listOfKeysToBeEncrypted),
          original  |-> pendingKeys,
          ctx       |-> metadata.ctx ]

\* mutant of SetStatus: the key is dropped from the mapping
SetStatus_Drops(keyStatus, key) ==
    [k \in DOMAIN keyStatus \ {key} |-> keyStatus[k]]

\* session.secrets.status[key] = 'completed'
SetStatus(keyStatus, key) ==
    [k \in DOMAIN keyStatus \cup {key} |->
        IF k = key THEN "completed" ELSE keyStatus[k]]

\* encryptedValue: '*****'
Mask == <<"*", "*", "*", "*", "*">>

\* mutant of updateSessionSecret: the completed entry keeps the value
updateSessionSecret_KeepsValue(session, key, encryptedValue, submittedBy) ==
    LET pending == FilterOut(session.pending, key)
        status == IF Len(pending) = 0 THEN "completed" ELSE "awaiting_input"
    IN  [session EXCEPT
            !.completed = Append(session.completed,
                             [key |-> key, encryptedValue |-> encryptedValue,
                              submittedBy |-> submittedBy]),
            !.pending   = pending,
            !.keyStatus = SetStatus(session.keyStatus, key),
            !.status    = status,
            !.audit     = Append(session.audit,
                             [action |-> "secret_submitted", key |-> key,
                              by |-> submittedBy,
                              remainingPending |-> Len(pending)])]

\* mutant of updateSessionSecret: a submission to a completed session
\* reopens it
updateSessionSecret_Reopens(session, key, encryptedValue, submittedBy) ==
    LET pending == FilterOut(session.pending, key)
        wasCompleted == session.status = "completed"
        status == IF Len(pending) = 0 /\ ~wasCompleted
                  THEN "completed" ELSE "awaiting_input"
    IN  [session EXCEPT
            !.completed = Append(session.completed,
                             [key |-> key, encryptedValue |-> Mask,
                              submittedBy |-> submittedBy]),
            !.pending   = IF wasCompleted THEN <<key>> ELSE pending,
            !.keyStatus = SetStatus(session.keyStatus, key),
            !.status    = status,
            !.audit     = Append(session.audit,
                             [action |-> "secret_submitted", key |-> key,
                              by |-> submittedBy,
                              remainingPending |-> Len(pending)])]

\* mutant of updateSessionSecret: the completion test off by one
\* (pending.length <= 1 instead of === 0)
updateSessionSecret_OffByOne(session, key, encryptedValue, submittedBy) ==
    LET pending == FilterOut(session.pending, key)
        status == IF Len(pending) <= 1 THEN "completed" ELSE "awaiting_input"
    IN  [session EXCEPT
            !.completed = Append(session.completed,
                             [key |-> key, encryptedValue |-> Mask,
                              submittedBy |-> submittedBy]),
            !.pending   = pending,
            !.keyStatus = SetStatus(session.keyStatus, key),
            !.status    = status,
            !.audit     = Append(session.audit,
                             [action |-> "secret_submitted", key |-> key,
                              by |-> submittedBy,
                              remainingPending |-> Len(pending)])]

\* mutant of updateSessionSecret: the audit log is started over with the
\* record of this submission
updateSessionSecret_AuditRewritten(session, key, encryptedValue, submittedBy) ==
    LET pending == FilterOut(session.pending, key)
        status == IF Len(pending) = 0 THEN "completed" ELSE "awaiting_input"
    IN  [session EXCEPT
            !.completed = Append(session.completed,
                             [key |-> key, encryptedValue |-> Mask,
                              submittedBy |-> submittedBy]),
            !.pending   = pending,
            !.keyStatus = SetStatus(session.keyStatus, key),
            !.status    = status,
            !.audit     = << [action |-> "secret_submitted", key |-> key,
                              by |-> submittedBy,
                              remainingPending |-> Len(pending)] >>]

\* the body of updateSessionSecret once the session is found; the value
\* it is handed is not used
updateSessionSecret(session, key, encryptedValue, submittedBy) ==
    LET completed == Append(session.completed,
                        [key |-> key, encryptedValue |-> Mask,
                         submittedBy |-> submittedBy])
        pending == FilterOut(session.pending, key)
        wasCompleted == session.status = "completed"
        status == IF Len(pending) = 0 THEN "completed" ELSE "awaiting_input"
        submitted == [action |-> "secret_submitted", key |-> key,
                      by |-> submittedBy, remainingPending |-> Len(pending)]
        allDone == [action |-> "all_secrets_completed", key |-> <<>>,
                    by |-> submittedBy, remainingPending |-> 0]
    IN  [session EXCEPT
            !.completed = completed,
            !.pending   = pending,
            !.keyStatus = SetStatus(session.keyStatus, key),
            !.status    = status,
            !.audit     = IF status = "completed" /\ ~wasCompleted
                          THEN session.audit \o <<submitted, allDone>>
                          ELSE Append(session.audit, submitted)]

(***************************************************************************)
(* Team access: features/team-access-gistless.js, utils/github.js          *)
(***************************************************************************)
\* config/secret-teams-gistless.json, in the order of its entries
secretTeamConfig ==
    << [pattern |-> <<"b">>, teamSlug |-> "team-b"],
       [pattern |-> <<"*">>, teamSlug |-> "team-default"],
       [pattern |-> <<"a", "a">>, teamSlug |-> "team-aa"] >>

Lower(c) == IF c = "A" THEN "a" ELSE IF c = "B" THEN "b" ELSE c

toLowerCase(s) == [i \in 1..Len(s) |-> Lower(s[i])]

\* s.includes(p)
StrIncludes(s, p) ==
    \E i \in 0..(Len(s) - Len(p)) : SubSeq(s, i + 1, i + Len(p)) = p

\* mutant of RuleMatches: the key is compared as it is written
RuleMatches_CaseSensitive(rule, key) ==
    /\ rule.pattern # <<"*">>
    /\ StrIncludes(key, rule.pattern)

RuleMatches(rule, key) ==
    /\ rule.pattern # <<"*">>
    /\ StrIncludes(toLowerCase(key), toLowerCase(rule.pattern))

resolveTeamForSecret(key) ==
    LET hits == {i \in 1..Len(secretTeamConfig) :
                    RuleMatches(secretTeamConfig[i], key)}
        first == CHOOSE i \in hits : \A j \in hits : i <= j
        star  == CHOOSE i \in 1..Len(secretTeamConfig) :
                    secretTeamConfig[i].pattern = <<"*">>
    IN  IF hits # {} THEN secretTeamConfig[first].teamSlug
        ELSE secretTeamConfig[star].teamSlug

\* the memberships the GitHub server knows: <<org, team, user>>
Members ==
    { <<"DevOps", "team-default", "alice">>,
      <<"DevOps", "team-b", "alice">>,
      <<"undefined", "team-default", "bob">>,
      <<"DevOps", "team-default", "carol">> }

\* `/orgs/${orgName}/teams/...`: the organisation as the URL of the
\* membership request names it
RequestOrg(orgName) == IF orgName = Absent THEN "undefined" ELSE orgName

\* what the membership request can come back with: the server's answer for
\* the real membership, a non-success status, or a failed fetch
MembershipReplies(orgName, teamSlug, username) ==
    (IF <<orgName, teamSlug, username>> \in Members
     THEN {"active"} ELSE {"notfound", "pending"})
    \cup {"error", "throws"}

\* mutant of checkUserTeamMembership: every membership record counts
checkUserTeamMembership_AnyState(reply) == reply \in {"active", "pending"}

\* checkUserTeamMembership for a reply that is not "throws"
checkUserTeamMembership(reply) == reply = "active"

\* process.env.ORG_NAME: index.js does not require it at start; a deployment
\* that sets it behaves as a session that carries the same ORG_NAME
EnvOrgName == Absent

OrgNameOf(session) ==
    IF session.ctx.ORG_NAME # Absent THEN session.ctx.ORG_NAME ELSE EnvOrgName

\* mutant of verifyKeyAccess: the catch branch answers true (fail-open)
verifyKeyAccess_FailOpen(user, key, session, reply) ==
    IF OrgNameOf(session) = Absent THEN FALSE
    ELSE IF reply = "throws" THEN TRUE
    ELSE checkUserTeamMembership(reply)

verifyKeyAccess(user, key, session, reply) ==
    IF OrgNameOf(session) = Absent THEN FALSE
    ELSE IF reply = "throws" THEN FALSE
    ELSE checkUserTeamMembership(reply)

(***************************************************************************)
(* Value processing: features/encryption-gistless.js                       *)
(***************************************************************************)
\* the nonces crypto.randomBytes(16) can draw
IVs == {"iv1", "iv2"}

KeyStorePasswordKey ==
    <<"a", "p", "p", ".", "k", "e", "y", "-", "s", "t", "o", "r",
      "e", "-", "p", "a", "s", "s", "w", "o", "r", "d">>
EncryptionKeyKey ==
    << "a", "p", "p", "-", "c", "o", "n", "f", "i", "g", ".",
       "s", "e", "c", "r", "e", "t", "-", "e", "n", "c", "r",
       "y", "p", "t", "i", "o", "n", ".", "e", "n", "c", "r",
       "y", "p", "t", "i", "o", "n", "-", "k", "e", "y" >>

HexChars ==
    << "0", "1", "2", "3", "4", "5", "6", "7",
       "8", "9", "a", "b", "c", "d", "e", "f" >>

\* the byte of a character
CharCode(c) ==
    CASE c = "n" -> 110 [] c = "-" -> 45 [] c = "j" -> 106
      [] c = "k" -> 107 [] c = "s" -> 115 [] c = "x" -> 120
      [] c = ":" -> 58 [] OTHER -> 63

\* hash.update(input): the bytes of the input folded into a 16-bit word.
\* SHA-1 itself is not computed; the word stands for its 160-bit state.
RECURSIVE update(_, _)
update(input, n) ==
    IF n = 0 THEN 40503
    ELSE (update(input, n - 1) * 31 + CharCode(input[n])) % 65536

\* digest('hex'): 40 hexadecimal characters, a function of the input only
digest(input) ==
    LET word == update(input, Len(input))
    IN  [i \in 1..40 |-> HexChars[(((word \div i) + 7 * i) % 16) + 1]]

\* mutant of generateHash: the whole digest is returned
generateHash_FullDigest(input) == digest(input)

\* hash.substring(0, 32)
generateHash(input) == SubSeq(digest(input), 1, 32)

\* `${iv.toString('hex')}:${encrypted}`
encryptSecret(plainValue, encKey, iv) ==
    <<iv, ":", "aes">> \o plainValue \o <<"/">> \o encKey

\* mutant of processSecretValue: the encryption list is looked at first
processSecretValue_ListFirst(secretKey, plainValue, buildEnvironment, applicationNamespace, encKey, keysToEncrypt, iv) ==
    IF Includes(keysToEncrypt, secretKey)
    THEN encryptSecret(plainValue, encKey, iv)
    ELSE IF /\ secretKey = KeyStorePasswordKey
            /\ buildEnvironment \in {"hodc", "pcdc"}
    THEN generateHash(applicationNamespace \o <<"-", "j", "k", "s">>)
    ELSE IF secretKey = EncryptionKeyKey THEN encKey
    ELSE plainValue

processSecretValue(secretKey, plainValue, buildEnvironment, applicationNamespace, encKey, keysToEncrypt, iv) ==
    IF /\ secretKey = KeyStorePasswordKey
       /\ buildEnvironment \in {"hodc", "pcdc"}
    THEN generateHash(applicationNamespace \o <<"-", "j", "k", "s">>)
    ELSE IF secretKey = EncryptionKeyKey THEN encKey
    ELSE IF Includes(keysToEncrypt, secretKey)
    THEN encryptSecret(plainValue, encKey, iv)
    ELSE plainValue

(***************************************************************************)
(* Value encryption of the gist flow: encryptValue, decryptValue           *)
(* (unnamed/part_000).  A string is a sequence of characters; a maximal   *)
(* run of hexadecimal digits that stands for one value (a nonce, a         *)
(* ciphertext byte, a tag word) is one character of the sequence, and "zz" *)
(* is a pair of characters that are not hexadecimal digits.                *)
(***************************************************************************)
Colon == ":"
EncPrefix == <<"e", "n", "c", Colon>>

\* process.env.ENCRYPTION_KEY || process.env.JWT_SECRET, and the key of
\* another deployment
ENCRYPTION_KEY == "k1"
OtherKey == "k2"

\* the 32 bytes the cipher is keyed with
getEncryptionKey == ENCRYPTION_KEY

\* the characters of the plaintexts
PlainChars == {"e", "n", "c", Colon, "x"}

\* cipher.update(text, 'utf8', 'hex'): AES-GCM is a stream cipher, every
\* byte of the text becomes one byte of the ciphertext, which one depends
\* on the nonce; the table gives the two hex digits of that byte
CipherTable(iv) ==
    IF iv = "iv1"
    THEN [ch \in PlainChars |->
            CASE ch = "e" -> "a1" [] ch = "n" -> "a2" [] ch = "c" -> "a3"
              [] ch = Colon -> "a4" [] OTHER -> "a5"]
    ELSE [ch \in PlainChars |->
            CASE ch = "e" -> "a3" [] ch = "n" -> "a4" [] ch = "c" -> "a5"
              [] ch = Colon -> "a1" [] OTHER -> "a2"]

CipherBytes == {"a1", "a2", "a3", "a4", "a5"}

\* the words a tag starts with, by key and nonce
TagWords == {"t11", "t12", "t21", "t22", "t00"}

TagWord(key, iv) ==
    IF key = "k1" /\ iv = "iv1" THEN "t11"
    ELSE IF key = "k1" /\ iv = "iv2" THEN "t12"
    ELSE IF key = "k2" /\ iv = "iv1" THEN "t21"
    ELSE IF key = "k2" /\ iv = "iv2" THEN "t22"
    ELSE "t00"

\* the characters that are hexadecimal digits
HexDigits == IVs \cup CipherBytes \cup TagWords

\* cipher.getAuthTag(): a function of the key, the nonce and the
\* ciphertext, different for different arguments
AuthTag(key, iv, encrypted) == <<TagWord(key, iv)>> \o encrypted

Encipher(text, iv) == [i \in 1..Len(text) |-> CipherTable(iv)[text[i]]]

\* the text sealed under a key: `enc:${iv}:${authTag}:${encrypted}`
Seal(key, text, iv) ==
    LET encrypted == Encipher(text, iv)
    IN  EncPrefix \o <<iv, Colon>> \o AuthTag(key, iv, encrypted)
                  \o <<Colon>> \o encrypted

\* mutant of encryptValue: the tag is left out of the envelope
encryptValue_NoTag(text, iv) ==
    EncPrefix \o <<iv, Colon>> \o Encipher(text, iv)

encryptValue(text, iv) == Seal(getEncryptionKey, text, iv)

StartsWith(str, prefix) ==
    Len(str) >= Len(prefix) /\ SubSeq(str, 1, Len(prefix)) = prefix

\* str.split(':')
RECURSIVE SplitColonFrom(_, _, _)
SplitColonFrom(str, i, cur) ==
    IF i > Len(str) THEN <<cur>>
    ELSE IF str[i] = Colon THEN <<cur>> \o SplitColonFrom(str, i + 1, <<>>)
    ELSE SplitColonFrom(str, i + 1, Append(cur, str[i]))

SplitColon(str) == SplitColonFrom(str, 1, <<>>)

\* Buffer.from(str, 'hex') and the 'hex' input of decipher.update: the
\* bytes of the digits up to the first character that is not one
RECURSIVE HexDecode(_)
HexDecode(str) ==
    IF str = <<>> THEN <<>>
    ELSE IF Head(str) \in HexDigits THEN <<Head(str)>> \o HexDecode(Tail(str))
    ELSE <<>>

\* the character a ciphertext byte stands for under the nonce; "?" for a
\* byte that is none of the table
Decipher(encrypted, iv) ==
    [i \in 1..Len(encrypted) |->
        IF \E ch \in PlainChars : CipherTable(iv)[ch] = encrypted[i]
        THEN CHOOSE ch \in PlainChars : CipherTable(iv)[ch] = encrypted[i]
        ELSE "?"]

\* the nonce the bytes are; "iv?" for bytes that are no nonce of IVs
NonceOf(bytes) == IF Len(bytes) = 1 THEN bytes[1] ELSE "iv?"

\* the try block of decryptValue after the format checks throws:
\* createDecipheriv for an empty nonce, setAuthTag for an empty tag,
\* final for a tag that does not verify
DecipherThrows(iv, authTag, encrypted) ==
    \/ iv = <<>>
    \/ authTag = <<>>
    \/ authTag # AuthTag(getEncryptionKey, NonceOf(iv), encrypted)

decryptValue(encryptedText) ==
    IF ~StartsWith(encryptedText, EncPrefix) THEN encryptedText
    ELSE LET parts == SplitColon(encryptedText)
         IN  IF Len(parts) # 4 THEN encryptedText
             ELSE LET iv == HexDecode(parts[2])
                      authTag == HexDecode(parts[3])
                      encrypted == HexDecode(parts[4])
                  IN  IF DecipherThrows(iv, authTag, encrypted)
                      THEN encryptedText
                      ELSE Decipher(encrypted, NonceOf(iv))

(***************************************************************************)
(* State                                                                   *)
(***************************************************************************)
VARIABLES
    heap,             \* the session objects ever built, by sessionId
    sessions,         \* keys of the Map sessions (sessionId -> heap object)
    workflowRunIdMap, \* the Map workflow_run_id -> sessionId (0: no entry)
    vault,            \* the secret path of the Vault server
    reqs,             \* the requests in flight, at their await points
    resp,             \* the response the last step sent (kind "none": none)
    fired,            \* triggerDownstreamWorkflow invocations per session
    call,             \* the arguments of a call of a value function
    ret,              \* what that call has returned so far
    trigger,          \* per session, how the latest invocation of
                      \* triggerDownstreamWorkflow has gone so far
    gist              \* the variables in the file of the gist

vars == <<heap, sessions, workflowRunIdMap, vault, reqs, resp, fired,
          call, ret, trigger, gist>>

\* triggerDownstreamWorkflow has not been invoked for the session
NotInvoked == [outcome |-> "none", detail |-> Absent]

\* the run identifiers a pipeline can register with
RunIds == {"r1", "r2"}

NoKV == [k \in {} |-> <<>>]

\* a response without secrets.status
NoStatus == [k \in {} |-> "pending"]

\* a gist file without variables.  variables is the parsed content without
\* its key_status entry, key_status that entry, hasStatus whether the
\* content has it
NoGist == [variables |-> NoKV, hasStatus |-> FALSE, key_status |-> NoStatus]

\* a request that arrives is kept in the first free slot
FreeSlot(r) ==
    /\ reqs[r].pc = "idle"
    /\ \A r2 \in Reqs : reqs[r2].pc = "idle" => r <= r2

\* the secret path before anything was written to it
NoSecret == [exists |-> FALSE, data |-> NoKV]

\* payload and fetched belong to a call of updateSingleVaultKey: the payload
\* it is about to push, and the content its GET was answered from
\* body and content belong to a call of updateGist: req.body, and the
\* variables its GET was answered with
IdleReq == [pc |-> "idle", sid |-> 0, key |-> <<>>, user |-> Absent,
            val |-> <<>>, snap |-> <<>>, payload |-> NoKV,
            fetched |-> NoSecret, body |-> NoKV, content |-> NoGist,
            updated |-> NoGist]

\* result, purged and remaining are the return values of purgeSession and
\* purgeCompletedSessions; error is the message of a thrown Error
NoError == [status |-> 0, body |-> Absent]

NoStats == [total |-> 0, awaitingInput |-> 0, completed |-> 0,
            totalPendingSecrets |-> 0, totalCompletedSecrets |-> 0]

NoResp == [kind |-> "none", status |-> 0, sid |-> 0, pendingKeys |-> <<>>,
           allCompleted |-> FALSE, pendingCount |-> 0, authorizedCount |-> 0,
           sessionStatus |-> Absent, result |-> FALSE, purged |-> 0,
           remaining |-> 0, error |-> NoError, stats |-> NoStats,
           keyStatus |-> NoStatus, completed |-> <<>>, path |-> <<>>,
           editable |-> NoKV]

\* no call of a value function is being followed
\* ret.stage: 0 before the call, 1 when processSecretValue or encryptValue
\* has returned ret.value, 2 when decryptValue has returned ret.value for
\* the string ret.input
NoCall == [fn |-> "none", secretKey |-> <<>>, text |-> <<>>,
           buildEnvironment |-> Absent, applicationNamespace |-> <<>>,
           encKey |-> <<>>, keysToEncrypt |-> <<>>,
           user |-> Absent, orgName |-> Absent, keys |-> <<>>,
           replies |-> <<>>]
NoRet == [stage |-> 0, value |-> <<>>, input |-> <<>>]

Json(kind, status, sid) ==
    [NoResp EXCEPT !.kind = kind, !.status = status, !.sid = sid]

Init ==
    /\ heap = <<>>
    /\ sessions = {}
    /\ workflowRunIdMap = [w \in RunIds |-> 0]
    /\ vault \in { NoSecret,
                   [exists |-> TRUE, data |-> [k \in {KeyB} |-> <<"o">>]] }
    /\ reqs = [r \in Reqs |-> IdleReq]
    /\ resp = NoResp
    /\ fired = [s \in SessionIds |-> 0]
    /\ call = NoCall
    /\ ret = NoRet
    /\ trigger = [s \in SessionIds |-> NotInvoked]
    /\ gist = NoGist

(***************************************************************************)
(* POST /api/sessions                                                      *)
(***************************************************************************)
\* generateSessionId: a fresh identifier
nextId == Len(heap) + 1

RegisterRejected(metadata) ==
    metadata.run_id = Absent \/ metadata.secrets_needs_input = <<>>

Register(metadata) ==
    /\ IF RegisterRejected(metadata)
       THEN /\ resp' = Json("register", 400, 0)
            /\ UNCHANGED <<heap, sessions, workflowRunIdMap>>
       ELSE LET session == createSession(nextId, metadata)
            IN  /\ heap' = Append(heap, session)
                /\ sessions' = sessions \cup {nextId}
                /\ workflowRunIdMap' =
                      IF metadata.run_id # Absent
                      THEN [workflowRunIdMap EXCEPT ![metadata.run_id] = nextId]
                      ELSE workflowRunIdMap
                /\ resp' = [Json("register", 200, nextId) EXCEPT
                                   !.pendingCount = Len(session.pending)]
    /\ UNCHANGED <<vault, reqs, fired, call, ret, trigger, gist>>

(***************************************************************************)
(* POST /api/sessions/:sessionId/secrets                                   *)
(***************************************************************************)
\* up to the first await (the call of verifyKeyAccess)
SubmitReceive(r, sid, key, value, user) ==
    /\ FreeSlot(r)
    /\ IF key = <<>> \/ value = <<>>
       THEN /\ resp' = Json("submit", 400, sid)
            /\ UNCHANGED reqs
       ELSE IF sid \notin sessions
       THEN /\ resp' = Json("submit", 404, sid)
            /\ UNCHANGED reqs
       ELSE IF ~Includes(heap[sid].pending, key)
       THEN /\ resp' = Json("submit", 400, sid)
            /\ UNCHANGED reqs
       ELSE /\ reqs' = [reqs EXCEPT ![r] =
                    [IdleReq EXCEPT !.pc = "verify", !.sid = sid, !.key = key,
                                    !.user = user, !.val = value]]
            /\ resp' = NoResp
    /\ UNCHANGED <<heap, sessions, workflowRunIdMap, vault, fired, call, ret, trigger, gist>>

\* the replies the membership request of verifyKeyAccess can get; "none"
\* when verifyKeyAccess returns before it asks
VerifyReplies(user, key, session) ==
    IF OrgNameOf(session) = Absent THEN {"none"}
    ELSE MembershipReplies(OrgNameOf(session), resolveTeamForSecret(key), user)

\* from the answer of verifyKeyAccess to the call of fetchVaultPayload.
\* processSecretValue is called here; it reads the request and the
\* creation-time context only, so the model computes its value where the
\* handler uses it (ProcessedValues below) and keeps the plain value here.
SubmitAfterVerify(r) ==
    /\ reqs[r].pc = "verify"
    /\ LET q == reqs[r]
           session == heap[q.sid]
       IN  \E reply \in VerifyReplies(q.user, q.key, session) :
             IF ~verifyKeyAccess(q.user, q.key, session, reply)
             THEN /\ resp' = Json("submit", 403, q.sid)
                  /\ reqs' = [reqs EXCEPT ![r] = IdleReq]
             ELSE IF session.ctx.vault_url = Absent
                     \/ session.ctx.VAULT_TOKEN = Absent
             THEN /\ resp' = [Json("submit", 500, q.sid) EXCEPT
                                !.error = [status |-> 500,
                                           body |-> "Vault configuration missing"]]
                  /\ reqs' = [reqs EXCEPT ![r] = IdleReq]
             ELSE /\ reqs' = [reqs EXCEPT ![r].pc = "fetch"]
                  /\ resp' = NoResp
    /\ UNCHANGED <<heap, sessions, workflowRunIdMap, vault, fired, call, ret, trigger, gist>>

\* the values processSecretValue can return for the request in slot r
ProcessedValues(r) ==
    LET q == reqs[r]
        session == heap[q.sid]
    IN  { processSecretValue(q.key, q.val, session.ctx.build_env,
                             session.ctx.application_namespace,
                             session.ctx.encryption_key,
                             session.keysToEncrypt, iv) : iv \in IVs }

(***************************************************************************)
(* Vault client: features/vault-operations-gistless.js                     *)
(***************************************************************************)
\* the answers of the server to GET on the secret path: the content, 404
\* for a path never written, or a refusal with its error text
FetchResponses ==
    (IF vault.exists THEN {[status |-> 200, body |-> Absent]}
     ELSE {[status |-> 404, body |-> "not found"]})
    \cup {[status |-> 403, body |-> "permission denied"],
          [status |-> 500, body |-> "internal error"]}

\* the HTTP status of GET on the secret path
FetchStatuses == {response.status : response \in FetchResponses}

\* the answers of the server to POST on the secret path
PushResponses ==
    {[status |-> 200, body |-> Absent],
     [status |-> 500, body |-> "internal error"]}

\* mutant of fetchVaultPayload: 404 is an error like any other
fetchVaultPayload_No404(response) ==
    IF response.status # 200
    THEN [threw |-> TRUE, data |-> NoKV,
          error |-> [status |-> response.status, body |-> response.body]]
    ELSE [threw |-> FALSE, data |-> vault.data, error |-> NoError]

\* fetchVaultPayload: data is the data.data of the payload it returns,
\* error the status and text of the Error it throws
fetchVaultPayload(response) ==
    IF response.status # 200
    THEN IF response.status = 404
         THEN [threw |-> FALSE, data |-> NoKV, error |-> NoError]
         ELSE [threw |-> TRUE, data |-> NoKV,
               error |-> [status |-> response.status,
                          body |-> response.body]]
    ELSE [threw |-> FALSE, data |-> vault.data, error |-> NoError]

\* mutant of SetKey: the payload is replaced by the one entry
SetKey_Replace(data, key, value) == [k \in {key} |-> value]

\* currentPayload.data.data[key] = value
SetKey(data, key, value) ==
    [k \in DOMAIN data \cup {key} |-> IF k = key THEN value ELSE data[k]]

\* updateSingleVaultKey up to the call of updateVaultPayload: the GET is
\* answered, the key is set in the payload
UpdateSingleKeyFetch(r, key, value) ==
    /\ FreeSlot(r)
    /\ \E response \in FetchResponses :
          LET currentPayload == fetchVaultPayload(response)
          IN  /\ resp' = [Json("fetchVaultPayload", response.status, 0) EXCEPT
                                 !.result = ~currentPayload.threw,
                                 !.error = currentPayload.error]
              /\ IF currentPayload.threw
                 THEN UNCHANGED reqs
                 ELSE reqs' = [reqs EXCEPT ![r] =
                         [IdleReq EXCEPT
                            !.pc = "push", !.key = key, !.val = value,
                            !.payload = SetKey(currentPayload.data, key, value),
                            !.fetched = vault]]
    /\ UNCHANGED <<heap, sessions, workflowRunIdMap, vault, fired, call, ret, trigger, gist>>

\* updateVaultPayload: the POST is answered; on success the secret path
\* holds the data.data of the payload
UpdateSingleKeyPush(r) ==
    /\ reqs[r].pc = "push"
    /\ reqs' = [reqs EXCEPT ![r] = IdleReq]
    /\ \E response \in PushResponses :
          IF response.status # 200
          THEN /\ resp' = [Json("updateVaultPayload", response.status, 0) EXCEPT
                                  !.result = FALSE,
                                  !.error = [status |-> response.status,
                                             body |-> response.body]]
               /\ UNCHANGED vault
          ELSE /\ resp' = [Json("updateVaultPayload", response.status, 0) EXCEPT
                                  !.result = TRUE]
               /\ vault' = [exists |-> TRUE, data |-> reqs[r].payload]
    /\ UNCHANGED <<heap, sessions, workflowRunIdMap, fired, call, ret, trigger, gist>>

(***************************************************************************)
(* Downstream trigger: triggerDownstreamWorkflow (unnamed/part_000)        *)
(***************************************************************************)
\* build_env?.toLowerCase() || ''
LowerEnv(buildEnv) ==
    IF buildEnv = "DEV" THEN "dev"
    ELSE IF buildEnv = "SIT" THEN "sit"
    ELSE IF buildEnv = "PROD" THEN "prod"
    ELSE buildEnv

\* mutant of triggerDownstreamWorkflow: every environment has a job
triggerDownstreamWorkflow_AnyEnv(session) ==
    IF session.ctx.GIT_TOKEN = Absent
    THEN [outcome |-> "threw", detail |-> "GIT_TOKEN not available"]
    ELSE [outcome |-> "pending", detail |-> "main.yml"]

\* triggerDownstreamWorkflow up to its await: it throws, returns the
\* skipped result, or has sent the dispatch call and waits for the answer
triggerDownstreamWorkflow(session) ==
    LET buildEnv == LowerEnv(session.ctx.build_env)
    IN  IF session.ctx.GIT_TOKEN = Absent
        THEN [outcome |-> "threw", detail |-> "GIT_TOKEN not available"]
        ELSE IF buildEnv = "dev" \/ buildEnv = "sit"
        THEN [outcome |-> "pending", detail |-> "main.yml"]
        ELSE [outcome |-> "skipped",
              detail |-> "No downstream workflow configured for build_env"]

\* the answers to the dispatch call: GitHub's 204, a refusal, no answer
DispatchAnswers == {"204", "422", "rejected"}

\* mutant of DispatchAnswered: a failed dispatch reopens the session
DispatchAnswered_Reopens(sid) ==
    /\ sid \in DOMAIN heap
    /\ trigger[sid].outcome = "pending"
    /\ \E answer \in DispatchAnswers :
          /\ trigger' = [trigger EXCEPT ![sid] =
                           IF answer = "204"
                           THEN [outcome |-> "dispatched", detail |-> answer]
                           ELSE [outcome |-> "failed", detail |-> answer]]
          /\ heap' = IF answer = "204" THEN heap
                     ELSE [heap EXCEPT ![sid].status = "awaiting_input"]
    /\ resp' = NoResp
    /\ UNCHANGED <<sessions, workflowRunIdMap, vault, reqs, fired, call, ret, gist>>

\* the dispatch call of the session's latest invocation is answered; a
\* failure is thrown, and caught and logged by the handler's .catch
DispatchAnswered(sid) ==
    /\ sid \in DOMAIN heap
    /\ trigger[sid].outcome = "pending"
    /\ \E answer \in DispatchAnswers :
          trigger' = [trigger EXCEPT ![sid] =
                        IF answer = "204"
                        THEN [outcome |-> "dispatched", detail |-> answer]
                        ELSE [outcome |-> "failed", detail |-> answer]]
    /\ resp' = NoResp
    /\ UNCHANGED <<heap, sessions, workflowRunIdMap, vault, reqs, fired,
                   call, ret, gist>>

\* the Error the handler's catch answers with: the one fetchVaultPayload
\* threw for the status, or updateSessionSecret's 'Session not found'
SubmitError(status) ==
    IF status \notin {200, 404}
    THEN [status |-> status, body |-> "Vault fetch failed"]
    ELSE [status |-> 500, body |-> "Session not found"]

\* mutant of SubmitAfterFetch: the session is updated before the payload
\* is fetched
SubmitAfterFetch_RecordsFirst(r) ==
    /\ reqs[r].pc = "fetch"
    /\ reqs' = [reqs EXCEPT ![r] = IdleReq]
    /\ LET q == reqs[r]
       IN  \E status \in FetchStatuses :
             IF status \notin {200, 404} \/ q.sid \notin sessions
             THEN /\ resp' = [Json("submit", 500, q.sid) EXCEPT
                                !.error = SubmitError(status)]
                  /\ heap' = IF q.sid \in sessions
                             THEN [heap EXCEPT ![q.sid] =
                                     updateSessionSecret(heap[q.sid], q.key,
                                                         q.val, q.user)]
                             ELSE heap
                  /\ UNCHANGED <<fired, trigger>>
             ELSE \E processedValue \in ProcessedValues(r) :
                  LET updatedSession ==
                          updateSessionSecret(heap[q.sid], q.key,
                                              processedValue, q.user)
                      allCompleted == updatedSession.status = "completed"
                  IN  /\ heap' = [heap EXCEPT ![q.sid] = updatedSession]
                      /\ fired' = IF allCompleted
                                  THEN [fired EXCEPT ![q.sid] = @ + 1]
                                  ELSE fired
                      /\ trigger' =
                            IF allCompleted
                            THEN [trigger EXCEPT ![q.sid] =
                                     triggerDownstreamWorkflow(updatedSession)]
                            ELSE trigger
                      /\ resp' = [Json("submit", 200, q.sid) EXCEPT
                                         !.pendingKeys = updatedSession.pending,
                                         !.allCompleted = allCompleted]
    /\ UNCHANGED <<sessions, workflowRunIdMap, vault, call, ret, gist>>

\* mutant of SubmitAfterFetch: the handler writes to the session object it
\* looked up and stores it again
SubmitAfterFetch_Resurrects(r) ==
    /\ reqs[r].pc = "fetch"
    /\ reqs' = [reqs EXCEPT ![r] = IdleReq]
    /\ LET q == reqs[r]
       IN  \E status \in FetchStatuses :
             IF status \notin {200, 404}
             THEN /\ resp' = [Json("submit", 500, q.sid) EXCEPT
                                !.error = SubmitError(status)]
                  /\ UNCHANGED <<heap, fired, trigger>>
             ELSE \E processedValue \in ProcessedValues(r) :
                  LET updatedSession ==
                          updateSessionSecret(heap[q.sid], q.key,
                                              processedValue, q.user)
                      allCompleted == updatedSession.status = "completed"
                  IN  /\ heap' = [heap EXCEPT ![q.sid] = updatedSession]
                      /\ fired' = IF allCompleted
                                  THEN [fired EXCEPT ![q.sid] = @ + 1]
                                  ELSE fired
                      /\ trigger' =
                            IF allCompleted
                            THEN [trigger EXCEPT ![q.sid] =
                                     triggerDownstreamWorkflow(updatedSession)]
                            ELSE trigger
                      /\ resp' = [Json("submit", 200, q.sid) EXCEPT
                                         !.pendingKeys = updatedSession.pending,
                                         !.allCompleted = allCompleted]
    /\ sessions' = sessions \cup {reqs[r].sid}
    /\ UNCHANGED <<workflowRunIdMap, vault, call, ret, gist>>

\* from the answer of fetchVaultPayload to the response.  The handler sets
\* the key in its copy of the payload and logs it; the push to Vault
\* (updateSingleVaultKey) is commented out, so vault stays as it is.
SubmitAfterFetch(r) ==
    /\ reqs[r].pc = "fetch"
    /\ reqs' = [reqs EXCEPT ![r] = IdleReq]
    /\ LET q == reqs[r]
       IN  \E status \in FetchStatuses :
             IF status \notin {200, 404} \/ q.sid \notin sessions
             THEN /\ resp' = [Json("submit", 500, q.sid) EXCEPT
                                !.error = SubmitError(status)]
                  /\ UNCHANGED <<heap, fired, trigger>>
             ELSE \E processedValue \in ProcessedValues(r) :
                  LET updatedSession ==
                          updateSessionSecret(heap[q.sid], q.key,
                                              processedValue, q.user)
                      allCompleted == updatedSession.status = "completed"
                  IN  /\ heap' = [heap EXCEPT ![q.sid] = updatedSession]
                      /\ fired' = IF allCompleted
                                  THEN [fired EXCEPT ![q.sid] = @ + 1]
                                  ELSE fired
                      /\ trigger' =
                            IF allCompleted
                            THEN [trigger EXCEPT ![q.sid] =
                                     triggerDownstreamWorkflow(updatedSession)]
                            ELSE trigger
                      /\ resp' = [Json("submit", 200, q.sid) EXCEPT
                                         !.pendingKeys = updatedSession.pending,
                                         !.allCompleted = allCompleted]
    /\ UNCHANGED <<sessions, workflowRunIdMap, vault, call, ret, gist>>

(***************************************************************************)
(* GET /api/sessions/:sessionId                                            *)
(***************************************************************************)
\* up to the await of filterAuthorizedKeys, which is handed the array
\* session.secrets.pending of that moment
GetReceive(r, sid, user) ==
    /\ FreeSlot(r)
    /\ IF sid \notin sessions
       THEN /\ resp' = Json("get", 404, sid)
            /\ UNCHANGED reqs
       ELSE /\ reqs' = [reqs EXCEPT ![r] =
                    [IdleReq EXCEPT !.pc = "filter", !.sid = sid,
                                    !.user = user, !.snap = heap[sid].pending]]
            /\ resp' = NoResp
    /\ UNCHANGED <<heap, sessions, workflowRunIdMap, vault, fired, call, ret, trigger, gist>>

\* the replies the membership requests of filterAuthorizedKeys can get,
\* one per key of pendingKeys; the organisation goes into the request as
\* it is, also when it is undefined
FilterReplies(user, pendingKeys, session) ==
    { f \in [1..Len(pendingKeys) ->
                {"active", "notfound", "pending", "error", "throws"}] :
        \A i \in 1..Len(pendingKeys) :
            f[i] \in MembershipReplies(RequestOrg(OrgNameOf(session)),
                        resolveTeamForSecret(pendingKeys[i]), user) }

RECURSIVE KeepFrom(_, _, _)
KeepFrom(pendingKeys, replies, i) ==
    IF i > Len(pendingKeys) THEN <<>>
    ELSE IF replies[i] # "throws" /\ checkUserTeamMembership(replies[i])
    THEN <<pendingKeys[i]>> \o KeepFrom(pendingKeys, replies, i + 1)
    ELSE KeepFrom(pendingKeys, replies, i + 1)

filterAuthorizedKeys(pendingKeys, replies) == KeepFrom(pendingKeys, replies, 1)

\* from the answer of filterAuthorizedKeys to the response; the handler
\* reads the session object it looked up before the await
\* session.secrets.completed.map(s => ({key, timestamp, submittedBy}))
CompletedSummary(session) ==
    [i \in 1..Len(session.completed) |->
        [key |-> session.completed[i].key,
         submittedBy |-> session.completed[i].submittedBy]]

GetAfterFilter(r) ==
    /\ reqs[r].pc = "filter"
    /\ reqs' = [reqs EXCEPT ![r] = IdleReq]
    /\ LET q == reqs[r]
           session == heap[q.sid]
       IN  \E replies \in FilterReplies(q.user, q.snap, session) :
             LET authorizedKeys == filterAuthorizedKeys(q.snap, replies)
             IN  IF Len(authorizedKeys) = 0 /\ Len(session.pending) > 0
                 THEN resp' = [Json("get", 403, q.sid) EXCEPT
                                      !.pendingCount = Len(session.pending),
                                      !.authorizedCount = 0]
                 ELSE resp' = [Json("get", 200, q.sid) EXCEPT
                                      !.pendingKeys = authorizedKeys,
                                      !.completed = CompletedSummary(session),
                                      !.keyStatus = session.keyStatus,
                                      !.sessionStatus = session.status]
    /\ UNCHANGED <<heap, sessions, workflowRunIdMap, vault, fired, call, ret, trigger, gist>>

(***************************************************************************)
(* findSessionByWorkflowRunId, purgeSession, purgeCompletedSessions        *)
(***************************************************************************)
\* the identifier of the session object the lookup returns, 0 for null
findSessionByWorkflowRunId(workflowRunId) ==
    LET sessionId == workflowRunIdMap[workflowRunId]
    IN  IF sessionId = 0 THEN 0
        ELSE IF sessionId \in sessions THEN sessionId
        ELSE 0

\* mutant of Unmap: the entry of the session's run is taken out whoever
\* it points at
Unmap_Unchecked(map, sid) ==
    [w \in DOMAIN map |-> IF heap[sid].runId = w THEN 0 ELSE map[w]]

\* the run-id index after the entry of session sid is taken out, if the
\* index still points at sid
Unmap(map, sid) ==
    [w \in DOMAIN map |->
        IF heap[sid].runId = w /\ map[w] = sid THEN 0 ELSE map[w]]

\* mutant of purgeSession: the entry of the run-id index is left in place
purgeSession_KeepIndex(sessionId) ==
    /\ IF sessionId \notin sessions
       THEN /\ resp' = [Json("purgeSession", 0, sessionId) EXCEPT
                               !.result = FALSE]
            /\ UNCHANGED <<sessions, workflowRunIdMap>>
       ELSE /\ sessions' = sessions \ {sessionId}
            /\ workflowRunIdMap' = workflowRunIdMap
            /\ resp' = [Json("purgeSession", 0, sessionId) EXCEPT
                               !.result = TRUE]
    /\ UNCHANGED <<heap, vault, reqs, fired, call, ret, trigger, gist>>

\* mutant of purgeSession: answers true also when there is no such session
purgeSession_AlwaysTrue(sessionId) ==
    /\ IF sessionId \notin sessions
       THEN /\ resp' = [Json("purgeSession", 0, sessionId) EXCEPT
                               !.result = TRUE]
            /\ UNCHANGED <<sessions, workflowRunIdMap>>
       ELSE /\ sessions' = sessions \ {sessionId}
            /\ workflowRunIdMap' = Unmap(workflowRunIdMap, sessionId)
            /\ resp' = [Json("purgeSession", 0, sessionId) EXCEPT
                               !.result = TRUE]
    /\ UNCHANGED <<heap, vault, reqs, fired, call, ret, trigger, gist>>

\* resp records the call and its return value
purgeSession(sessionId) ==
    /\ IF sessionId \notin sessions
       THEN /\ resp' = [Json("purgeSession", 0, sessionId) EXCEPT
                               !.result = FALSE]
            /\ UNCHANGED <<sessions, workflowRunIdMap>>
       ELSE /\ sessions' = sessions \ {sessionId}
            /\ workflowRunIdMap' = Unmap(workflowRunIdMap, sessionId)
            /\ resp' = [Json("purgeSession", 0, sessionId) EXCEPT
                               !.result = TRUE]
    /\ UNCHANGED <<heap, vault, reqs, fired, call, ret, trigger, gist>>

\* mutant of purgeCompletedSessions: the index entries stay
purgeCompletedSessions_KeepIndex ==
    LET completedSessions ==
            {sid \in sessions : heap[sid].status = "completed"}
    IN  /\ sessions' = sessions \ completedSessions
        /\ resp' = [Json("purgeCompletedSessions", 0, 0) EXCEPT
                           !.purged = Cardinality(completedSessions),
                           !.remaining = Cardinality(sessions')]
    /\ UNCHANGED <<heap, workflowRunIdMap, vault, reqs, fired, call, ret,
                   trigger, gist>>

purgeCompletedSessions ==
    LET completedSessions ==
            {sid \in sessions : heap[sid].status = "completed"}
    IN  /\ sessions' = sessions \ completedSessions
        /\ workflowRunIdMap' =
              [w \in DOMAIN workflowRunIdMap |->
                  IF workflowRunIdMap[w] \in completedSessions
                     /\ heap[workflowRunIdMap[w]].runId = w
                  THEN 0 ELSE workflowRunIdMap[w]]
        /\ resp' = [Json("purgeCompletedSessions", 0, 0) EXCEPT
                           !.purged = Cardinality(completedSessions),
                           !.remaining = Cardinality(sessions')]
    /\ UNCHANGED <<heap, vault, reqs, fired, call, ret, trigger, gist>>

\* allSessions.reduce((sum, s) => sum + s.secrets[field].length, 0)
RECURSIVE reduce(_, _, _)
reduce(store, allSessions, field) ==
    IF allSessions = {} THEN 0
    ELSE LET s == CHOOSE x \in allSessions : TRUE
         IN  Len(IF field = "pending" THEN store[s].pending
                                      ELSE store[s].completed)
             + reduce(store, allSessions \ {s}, field)

\* mutant of getSessionStats: counts every session ever created
getSessionStats_CountsPurged(store, allSessions) ==
    [total |-> Len(store),
     awaitingInput |->
         Cardinality({s \in DOMAIN store : store[s].status = "awaiting_input"}),
     completed |->
         Cardinality({s \in DOMAIN store : store[s].status = "completed"}),
     totalPendingSecrets |-> reduce(store, DOMAIN store, "pending"),
     totalCompletedSecrets |-> reduce(store, DOMAIN store, "completed")]

\* allSessions is Array.from(sessions.values())
getSessionStats(store, allSessions) ==
    [total |-> Cardinality(allSessions),
     awaitingInput |->
         Cardinality({s \in allSessions : store[s].status = "awaiting_input"}),
     completed |->
         Cardinality({s \in allSessions : store[s].status = "completed"}),
     totalPendingSecrets |-> reduce(store, allSessions, "pending"),
     totalCompletedSecrets |-> reduce(store, allSessions, "completed")]

\* the routes of the application in the order of their registration
Routes ==
    << [method |-> "GET",  path |-> <<"auth", "login">>, handler |-> "login"],
       [method |-> "GET",  path |-> <<"auth", "callback">>,
        handler |-> "callback"],
       [method |-> "GET",  path |-> <<"auth", "verify">>, handler |-> "verify"],
       [method |-> "POST", path |-> <<"api", "sessions">>,
        handler |-> "register"],
       [method |-> "GET",
        path |-> <<"api", "sessions", "by-run-id", ":workflowRunId">>,
        handler |-> "sessionByRunId"],
       [method |-> "GET",  path |-> <<"api", "sessions", ":sessionId">>,
        handler |-> "sessionById"],
       [method |-> "POST",
        path |-> <<"api", "sessions", ":sessionId", "secrets">>,
        handler |-> "submit"],
       [method |-> "GET",  path |-> <<"api", "sessions", "stats">>,
        handler |-> "stats"],
       [method |-> "GET",  path |-> <<"api", "sessions">>,
        handler |-> "allSessions"],
       [method |-> "GET",  path |-> <<"health">>, handler |-> "health"],
       [method |-> "GET",  path |-> <<>>, handler |-> "index"] >>

\* the segments of a route that stand for a parameter
Params == {":workflowRunId", ":sessionId"}

\* the route accepts the request: same method, same number of segments,
\* and every segment the same unless the route has a parameter there
Matches(route, method, path) ==
    /\ route.method = method
    /\ Len(route.path) = Len(path)
    /\ \A i \in 1..Len(path) :
          route.path[i] \in Params \/ route.path[i] = path[i]

\* the handler of the first route, in registration order, that accepts
\* the request
RouteOf(method, path) ==
    LET hits == {i \in DOMAIN Routes : Matches(Routes[i], method, path)}
    IN  IF hits = {} THEN "none"
        ELSE Routes[CHOOSE i \in hits : \A j \in hits : i <= j].handler

StatsPath == <<"api", "sessions", "stats">>

\* GET /api/sessions/stats by an authenticated user: the request goes to
\* the first route that accepts it.  The session-by-id handler looks up
\* the session 'stats', which no session is called, and answers 404.
GetSessionsStats ==
    /\ LET handler == RouteOf("GET", StatsPath)
       IN  IF handler = "stats"
           THEN resp' = [Json("stats", 200, 0) EXCEPT
                               !.stats = getSessionStats(heap, sessions),
                               !.path = StatsPath]
           ELSE IF handler = "sessionById"
           THEN resp' = [Json("get", 404, 0) EXCEPT !.path = StatsPath]
           ELSE resp' = [Json("none", 404, 0) EXCEPT !.path = StatsPath]
    /\ UNCHANGED <<heap, sessions, workflowRunIdMap, vault, reqs, fired,
                   call, ret, trigger, gist>>

\* GET /health
Health ==
    /\ resp' = [Json("health", 200, 0) EXCEPT
                       !.stats = getSessionStats(heap, sessions)]
    /\ UNCHANGED <<heap, sessions, workflowRunIdMap, vault, reqs, fired,
                   call, ret, trigger, gist>>

(***************************************************************************)
(* The Gist-backed variant: fetchGist and updateGist (unnamed/part_000)    *)
(***************************************************************************)
\* the name of the entry that holds the status object
KeyStatusName == <<"key_status">>

KeyC == <<"c">>

TBC == <<"T", "B", "C">>
TBD == <<"T", "B", "D">>

\* String.prototype.toUpperCase on the characters of the values
Upper(c) ==
    CASE c = "t" -> "T" [] c = "b" -> "B" [] c = "c" -> "C"
      [] c = "d" -> "D" [] c = "e" -> "E" [] c = "n" -> "N"
      [] c = "x" -> "X" [] OTHER -> c

\* String(value).trim().toUpperCase()
normalizedValue(value) ==
    LET t == Trim(value) IN [i \in 1..Len(t) |-> Upper(t[i])]

\* keyStatus.toLowerCase() for the status strings in use
LowerStatus(keyStatus) ==
    IF keyStatus \in {"open", "Open", "OPEN"} THEN "open"
    ELSE IF keyStatus \in {"updated", "Updated"} THEN "updated"
    ELSE keyStatus

\* the loop of fetchGist: the variables with a TBC or TBD value whose
\* status is 'open' or not set
editableVariables(content) ==
    LET statusObj == content.key_status
        editable(k) ==
            /\ normalizedValue(content.variables[k]) \in {TBC, TBD}
            /\ ~( /\ k \in DOMAIN statusObj
                  /\ statusObj[k] # Absent
                  /\ LowerStatus(statusObj[k]) # "open" )
    IN  [k \in {k2 \in DOMAIN content.variables : editable(k2)} |->
            content.variables[k]]

\* the answers of GitHub to a request on the gist
GistAnswers == {200, 404}

\* GET /gist/:gistId
FetchGist ==
    /\ \E answer \in GistAnswers :
          IF answer # 200
          THEN resp' = Json("fetchGist", answer, 0)
          ELSE resp' = [Json("fetchGist", 200, 0) EXCEPT
                              !.editable = editableVariables(gist)]
    /\ UNCHANGED <<heap, sessions, workflowRunIdMap, vault, reqs, fired,
                   call, ret, trigger, gist>>

\* mutant of updateGist: the status of the keys is not written
updateGist_NoStatus(content, body, ivs) ==
    [content EXCEPT
        !.variables =
            [k \in DOMAIN content.variables \cup DOMAIN body |->
                IF k \in DOMAIN body THEN encryptValue(body[k], ivs[k])
                ELSE content.variables[k]],
        !.hasStatus = TRUE]

\* the content updateGist builds from the content it read and req.body:
\* { ...currentVariables, ...encryptedBody } and key_status[key] = "updated"
updateGist(content, body, ivs) ==
    [variables |->
        [k \in DOMAIN content.variables \cup DOMAIN body |->
            IF k \in DOMAIN body THEN encryptValue(body[k], ivs[k])
            ELSE content.variables[k]],
     hasStatus |-> TRUE,
     key_status |->
        [k \in DOMAIN content.key_status \cup DOMAIN body |->
            IF k \in DOMAIN body THEN "updated" ELSE content.key_status[k]]]

\* POST /gist/:gistId up to the PATCH request: the GET is answered, the
\* values are encrypted and merged.  With key_status in the body the
\* merged key_status is a string, the assignment of a property to it
\* throws in module code, and the catch answers 500.
UpdateGistGet(r, body) ==
    /\ FreeSlot(r)
    /\ \E answer \in GistAnswers :
          IF answer # 200
          THEN /\ resp' = Json("updateGist", answer, 0)
               /\ UNCHANGED reqs
          ELSE IF KeyStatusName \in DOMAIN body
          THEN /\ resp' = Json("updateGist", 500, 0)
               /\ UNCHANGED reqs
          ELSE /\ \E iv \in IVs :
                     reqs' = [reqs EXCEPT ![r] =
                                [IdleReq EXCEPT
                                   !.pc = "patch", !.body = body,
                                   !.content = gist,
                                   !.updated =
                                      updateGist(gist, body,
                                                 [k \in DOMAIN body |-> iv])]]
               /\ resp' = NoResp
    /\ UNCHANGED <<heap, sessions, workflowRunIdMap, vault, fired, call, ret,
                   trigger, gist>>

\* the PATCH request is answered
UpdateGistPatch(r) ==
    /\ reqs[r].pc = "patch"
    /\ reqs' = [reqs EXCEPT ![r] = IdleReq]
    /\ \E answer \in GistAnswers :
          IF answer # 200
          THEN /\ resp' = Json("updateGist", answer, 0)
               /\ UNCHANGED gist
          ELSE /\ resp' = [Json("updateGist", 200, 0) EXCEPT !.result = TRUE]
               /\ gist' = reqs[r].updated
    /\ UNCHANGED <<heap, sessions, workflowRunIdMap, vault, fired, call, ret,
                   trigger>>

(***************************************************************************)
(* Specifications.  The clients and the pipeline are the environment:      *)
(* Next lets them send any request at any time; NextDistinct is the same   *)
(* system with clients that do not send a submission for a key of a        *)
(* session while one for that key is still in flight.                      *)
(***************************************************************************)
InFlight(sid, key) ==
    \E r \in Reqs : /\ reqs[r].pc \in {"verify", "fetch"}
                    /\ reqs[r].sid = sid
                    /\ reqs[r].key = key

Next ==
    \/ /\ nextId <= MaxSessions
       /\ \E rid \in RunIdInputs, kl \in KeyListInputs, c \in Contexts :
             Register([run_id |-> rid, secrets_needs_input |-> kl, ctx |-> c])
    \/ \E r \in Reqs, sid \in SessionIds, key \in SubmitKeys,
          value \in SubmitValues, user \in Users :
          SubmitReceive(r, sid, key, value, user)
    \/ \E r \in Reqs : SubmitAfterVerify(r)
    \/ \E r \in Reqs : SubmitAfterFetch(r)
    \/ \E r \in Reqs, sid \in SessionIds, user \in Users :
          GetReceive(r, sid, user)
    \/ \E r \in Reqs : GetAfterFilter(r)
    \/ \E sid \in SessionIds : purgeSession(sid)
    \/ purgeCompletedSessions
    \/ \E sid \in SessionIds : DispatchAnswered(sid)

Spec == Init /\ [][Next]_vars

NextDistinct ==
    \/ /\ nextId <= MaxSessions
       /\ \E rid \in RunIdInputs, kl \in KeyListInputs, c \in Contexts :
             Register([run_id |-> rid, secrets_needs_input |-> kl, ctx |-> c])
    \/ \E r \in Reqs, sid \in SessionIds, key \in SubmitKeys,
          value \in SubmitValues, user \in Users :
          /\ ~InFlight(sid, key)
          /\ SubmitReceive(r, sid, key, value, user)
    \/ \E r \in Reqs : SubmitAfterVerify(r)
    \/ \E r \in Reqs : SubmitAfterFetch(r)
    \/ \E r \in Reqs, sid \in SessionIds, user \in Users :
          GetReceive(r, sid, user)
    \/ \E r \in Reqs : GetAfterFilter(r)
    \/ \E sid \in SessionIds : purgeSession(sid)
    \/ purgeCompletedSessions
    \/ \E sid \in SessionIds : DispatchAnswered(sid)

SpecDistinct == Init /\ [][NextDistinct]_vars

(***************************************************************************)
(* The store with several sessions: pipelines register sessions for two    *)
(* run identifiers, also twice for the same one; every session asks for    *)
(* the one key "a", which alice submits; sessions are purged one by one    *)
(* or all the completed ones together.                                     *)
(***************************************************************************)
StoreSessionIds == 1..MaxStoreSessions

StoreContext ==
    [build_env |-> "dev", application_namespace |-> <<"n">>,
     encryption_key |-> <<"k">>, listOfKeysToBeEncrypted |-> <<"a">>,
     vault_url |-> "vault/ms", VAULT_TOKEN |-> "vt", GIT_TOKEN |-> "gt",
     ORG_NAME |-> "DevOps"]

InitStore ==
    /\ heap = <<>>
    /\ sessions = {}
    /\ workflowRunIdMap = [w \in RunIds |-> 0]
    /\ vault = NoSecret
    /\ reqs = [r \in Reqs |-> IdleReq]
    /\ resp = NoResp
    /\ fired = [s \in StoreSessionIds |-> 0]
    /\ call = NoCall
    /\ ret = NoRet
    /\ trigger = [s \in StoreSessionIds |-> NotInvoked]
    /\ gist = NoGist

NextStore ==
    \/ /\ nextId <= MaxStoreSessions
       /\ \E rid \in RunIds :
             Register([run_id |-> rid, secrets_needs_input |-> <<"a">>,
                       ctx |-> StoreContext])
    \/ \E r \in Reqs, sid \in StoreSessionIds :
          SubmitReceive(r, sid, KeyA, <<"v">>, "alice")
    \/ \E r \in Reqs : SubmitAfterVerify(r)
    \/ \E r \in Reqs : SubmitAfterFetch(r)
    \/ \E sid \in StoreSessionIds : purgeSession(sid)
    \/ purgeCompletedSessions
    \/ Health
    \/ GetSessionsStats

SpecStore == InitStore /\ [][NextStore]_vars

(***************************************************************************)
(* Two sessions side by side: a run "r1" asks for the keys "a" and "b", a  *)
(* run "r2" for the key "a", and either may register twice; alice, a       *)
(* member of every team, submits "b"; carol, a member of the default team  *)
(* only, submits "a" and reads sessions; sessions are purged one by one.   *)
(***************************************************************************)
MaxPairSessions == 2

PairSessionIds == 1..MaxPairSessions

NextPair ==
    \/ /\ nextId <= MaxPairSessions
       /\ \E rid \in RunIds :
             Register([run_id |-> rid,
                       secrets_needs_input |->
                          IF rid = "r1" THEN <<"a", Comma, "b">> ELSE <<"a">>,
                       ctx |-> StoreContext])
    \/ \E r \in Reqs, sid \in PairSessionIds :
          \/ SubmitReceive(r, sid, KeyA, <<"v">>, "carol")
          \/ SubmitReceive(r, sid, KeyB, <<"v">>, "alice")
    \/ \E r \in Reqs : SubmitAfterVerify(r)
    \/ \E r \in Reqs : SubmitAfterFetch(r)
    \/ \E r \in Reqs, sid \in PairSessionIds : GetReceive(r, sid, "carol")
    \/ \E r \in Reqs : GetAfterFilter(r)
    \/ \E sid \in PairSessionIds : purgeSession(sid)

SpecPair == InitStore /\ [][NextPair]_vars

(***************************************************************************)
(* The gist alone: a file with the variables "a" and "b", values to be     *)
(* confirmed or set, with or without a status object; users send updates   *)
(* for one or two names, up to MaxReqs at a time, and read the gist.       *)
(***************************************************************************)
GistContents ==
    { [variables |-> [k \in {KeyA, KeyB} |-> IF k = KeyA THEN va ELSE vb],
       hasStatus |-> st.has, key_status |-> st.obj] :
        va \in {TBC, <<Space, "t", "b", "d">>, <<"x">>},
        vb \in {TBC},
        st \in { [has |-> FALSE, obj |-> NoStatus],
                 [has |-> TRUE, obj |-> [k \in {KeyA} |-> "Open"]],
                 [has |-> TRUE,
                  obj |-> [k \in {KeyA, KeyB} |->
                             IF k = KeyA THEN "open" ELSE "updated"]] } }

\* req.body of the updates
GistBodies ==
    { [k \in {KeyA} |-> <<"x">>],
      [k \in {KeyA, KeyB} |-> <<"x">>],
      [k \in {KeyC} |-> <<"x">>],
      [k \in {KeyStatusName} |-> <<"x">>] }

InitGist ==
    /\ heap = <<>>
    /\ sessions = {}
    /\ workflowRunIdMap = [w \in RunIds |-> 0]
    /\ vault = NoSecret
    /\ reqs = [r \in Reqs |-> IdleReq]
    /\ resp = NoResp
    /\ fired = [s \in SessionIds |-> 0]
    /\ call = NoCall
    /\ ret = NoRet
    /\ trigger = [s \in SessionIds |-> NotInvoked]
    /\ gist \in GistContents

NextGist ==
    \/ \E r \in Reqs, body \in GistBodies : UpdateGistGet(r, body)
    \/ \E r \in Reqs : UpdateGistPatch(r)
    \/ FetchGist

SpecGist == InitGist /\ [][NextGist]_vars

(***************************************************************************)
(* The team access functions alone: one call of resolveTeamForSecret,      *)
(* verifyKeyAccess or filterAuthorizedKeys, for sessions with and without  *)
(* an organisation, with every answer the membership request can get.      *)
(***************************************************************************)
ResolveKeys ==
    { <<>>, <<"a">>, <<"b">>, <<"B">>, <<"x">>, <<"*">>, <<"a", "a">>,
      <<"A", "a">>, <<"a", "b">>, <<"x", "B", "x">>, <<"b", "a", "a">>,
      <<"a", "a", "b">>, <<"a", "x", "a">> }

AccessKeys == {<<"a">>, <<"b">>, <<"a", "a">>}

AccessKeyLists ==
    { <<>>, <<KeyA>>, <<KeyB>>, <<KeyA, KeyB>>, <<KeyB, KeyA>> }

\* the part of a session the access functions read
AccessSession(orgName) == [ctx |-> [ORG_NAME |-> orgName]]

AccessCalls ==
    { [NoCall EXCEPT !.fn = "resolveTeamForSecret", !.secretKey = k] :
        k \in ResolveKeys }
    \cup UNION { { [NoCall EXCEPT !.fn = "verifyKeyAccess", !.user = u,
                           !.secretKey = k, !.orgName = o,
                           !.replies = <<reply>>] :
                     reply \in MembershipReplies(RequestOrg(o),
                                   resolveTeamForSecret(k), u) } :
                 u \in Users, k \in AccessKeys, o \in {Absent, "DevOps"} }
    \cup UNION { { [NoCall EXCEPT !.fn = "filterAuthorizedKeys", !.user = u,
                           !.keys = l, !.orgName = o, !.replies = f] :
                     f \in FilterReplies(u, l, AccessSession(o)) } :
                 u \in Users, l \in AccessKeyLists,
                 o \in {Absent, "DevOps"} }

InitAccess ==
    /\ heap = <<>>
    /\ sessions = {}
    /\ workflowRunIdMap = [w \in RunIds |-> 0]
    /\ vault = NoSecret
    /\ reqs = [r \in Reqs |-> IdleReq]
    /\ resp = NoResp
    /\ fired = [s \in SessionIds |-> 0]
    /\ call \in AccessCalls
    /\ ret = NoRet
    /\ trigger = [s \in SessionIds |-> NotInvoked]
    /\ gist = NoGist

\* the value of a JavaScript boolean, as a string
Bool(b) == IF b THEN <<"true">> ELSE <<"false">>

ResolveTeam ==
    /\ call.fn = "resolveTeamForSecret"
    /\ ret.stage = 0
    /\ ret' = [NoRet EXCEPT !.stage = 1,
                            !.value = <<resolveTeamForSecret(call.secretKey)>>]
    /\ UNCHANGED <<heap, sessions, workflowRunIdMap, vault, reqs, resp, fired,
                   call, trigger, gist>>

VerifyAccess ==
    /\ call.fn = "verifyKeyAccess"
    /\ ret.stage = 0
    /\ ret' = [NoRet EXCEPT
                 !.stage = 1,
                 !.value = Bool(verifyKeyAccess(call.user, call.secretKey,
                                   AccessSession(call.orgName),
                                   call.replies[1]))]
    /\ UNCHANGED <<heap, sessions, workflowRunIdMap, vault, reqs, resp, fired,
                   call, trigger, gist>>

FilterAuthorized ==
    /\ call.fn = "filterAuthorizedKeys"
    /\ ret.stage = 0
    /\ ret' = [NoRet EXCEPT
                 !.stage = 1,
                 !.value = filterAuthorizedKeys(call.keys, call.replies)]
    /\ UNCHANGED <<heap, sessions, workflowRunIdMap, vault, reqs, resp, fired,
                   call, trigger, gist>>

NextAccess ==
    \/ ResolveTeam
    \/ VerifyAccess
    \/ FilterAuthorized

SpecAccess == InitAccess /\ [][NextAccess]_vars

(***************************************************************************)
(* The downstream trigger: one session that asks for the key "a", created  *)
(* for each of several environments, with and without the dispatch         *)
(* credential; alice submits the key, also twice at a time.                *)
(***************************************************************************)
TriggerContexts ==
    { [StoreContext EXCEPT !.build_env = e, !.GIT_TOKEN = t] :
        e \in {"dev", "SIT", "prod", Absent}, t \in {"gt", Absent} }

NextTrigger ==
    \/ /\ nextId <= MaxSessions
       /\ \E c \in TriggerContexts :
             Register([run_id |-> "r1", secrets_needs_input |-> <<"a">>,
                       ctx |-> c])
    \/ \E r \in Reqs, sid \in SessionIds :
          SubmitReceive(r, sid, KeyA, <<"v">>, "alice")
    \/ \E r \in Reqs : SubmitAfterVerify(r)
    \/ \E r \in Reqs : SubmitAfterFetch(r)
    \/ \E sid \in SessionIds : DispatchAnswered(sid)

SpecTrigger == Init /\ [][NextTrigger]_vars

(***************************************************************************)
(* The Vault client alone: callers update single keys of one secret path,  *)
(* up to MaxReqs calls at a time.                                          *)
(***************************************************************************)
VaultValues == {<<"v">>, <<"w">>}

InitVault ==
    /\ heap = <<>>
    /\ sessions = {}
    /\ workflowRunIdMap = [w \in RunIds |-> 0]
    /\ vault \in { NoSecret,
                   [exists |-> TRUE, data |-> [k \in {KeyB} |-> <<"o">>]] }
    /\ reqs = [r \in Reqs |-> IdleReq]
    /\ resp = NoResp
    /\ fired = [s \in SessionIds |-> 0]
    /\ call = NoCall
    /\ ret = NoRet
    /\ trigger = [s \in SessionIds |-> NotInvoked]
    /\ gist = NoGist

NextVault ==
    \/ \E r \in Reqs, key \in {KeyA, KeyB}, value \in VaultValues :
          UpdateSingleKeyFetch(r, key, value)
    \/ \E r \in Reqs : UpdateSingleKeyPush(r)

SpecVault == InitVault /\ [][NextVault]_vars

(***************************************************************************)
(* The value functions alone: one call of processSecretValue, encryptValue *)
(* or decryptValue with arguments from small sets; decryptValue is also    *)
(* applied to what the other two return.                                   *)
(***************************************************************************)
\* longest plaintext built from all combinations of characters
MaxTextLen == 2

ShortTexts ==
    UNION { [1..n -> {Colon, "x"}] : n \in 0..MaxTextLen }

\* the plaintexts handed to encryptValue
Plaintexts ==
    ShortTexts
    \cup { EncPrefix,
           EncPrefix \o <<"x">>,
           EncPrefix \o <<"x", Colon, "x", Colon, "x">> }

\* strings that carry the prefix and are no envelope sealed under
\* ENCRYPTION_KEY: too few or too many fields, fields that are not
\* hexadecimal or go on with characters that are not, a tag of another
\* text, an envelope of another key
Tampered ==
    LET ct == Encipher(<<"x">>, "iv1")
        tag == AuthTag(ENCRYPTION_KEY, "iv1", ct)
    IN  { EncPrefix,
          EncPrefix \o <<"x">>,
          EncPrefix \o <<"x", Colon, "x", Colon, "x">>,
          EncPrefix \o <<"zz", Colon>> \o tag \o <<Colon>> \o ct,
          EncPrefix \o <<"iv1", Colon, "zz", Colon>> \o ct,
          EncPrefix \o <<"iv1", Colon>> \o tag \o <<Colon, "zz">>,
          EncPrefix \o <<"iv1", "zz", Colon>> \o tag \o <<Colon>> \o ct,
          EncPrefix \o <<"iv1", Colon>> \o tag \o <<"zz", Colon>> \o ct,
          EncPrefix \o <<"iv1", Colon>> \o tag \o <<Colon>> \o ct \o <<"zz">>,
          EncPrefix \o <<"iv1", Colon>> \o tag \o <<Colon>> \o ct
                    \o <<Colon, "x">>,
          EncPrefix \o <<"iv1", Colon>> \o tag,
          EncPrefix \o <<"iv2", Colon>> \o tag \o <<Colon>> \o ct,
          EncPrefix \o <<"iv1", Colon>>
                    \o AuthTag(ENCRYPTION_KEY, "iv1", Encipher(<<Colon>>, "iv1"))
                    \o <<Colon>> \o ct,
          Seal(OtherKey, <<"x">>, "iv1"),
          Seal(OtherKey, <<>>, "iv2") }

\* the strings handed to decryptValue
DecryptInputs ==
    Plaintexts
    \cup { <<"e", "n", Colon, "c">>, <<"x">> \o EncPrefix,
           <<"iv1", Colon, "a5">> }
    \cup Tampered
    \cup { Seal(ENCRYPTION_KEY, <<"x">>, "iv1") }

\* the strings handed to generateHash
HashInputs ==
    ShortTexts
    \cup { <<"n", "-", "j", "k", "s">>, <<"x", "-", "j", "k", "s">>,
           <<"-", "j", "k", "s">> }

ProcessKeys == {KeyStorePasswordKey, EncryptionKeyKey, KeyA, KeyB}

EncryptionLists ==
    { <<>>, <<KeyA>>, <<KeyStorePasswordKey>>, <<KeyA, EncryptionKeyKey>>,
      <<EncryptionKeyKey, KeyStorePasswordKey, KeyB>> }

ValueCalls ==
    { [fn |-> "processSecretValue", secretKey |-> k, text |-> t,
       buildEnvironment |-> e, applicationNamespace |-> <<"n">>,
       encKey |-> <<"k">>, keysToEncrypt |-> l] :
        k \in ProcessKeys, t \in {<<"v">>, <<"w">>},
        e \in {"dev", "hodc", "pcdc"}, l \in EncryptionLists }
    \cup { [NoCall EXCEPT !.fn = "encryptValue", !.text = t] :
              t \in Plaintexts }
    \cup { [NoCall EXCEPT !.fn = "decryptValue", !.text = t] :
              t \in DecryptInputs }
    \cup { [NoCall EXCEPT !.fn = "generateHash", !.text = t] :
              t \in HashInputs }

InitCrypto ==
    /\ heap = <<>>
    /\ sessions = {}
    /\ workflowRunIdMap = [w \in RunIds |-> 0]
    /\ vault = NoSecret
    /\ reqs = [r \in Reqs |-> IdleReq]
    /\ resp = NoResp
    /\ fired = [s \in SessionIds |-> 0]
    /\ call \in ValueCalls
    /\ ret = NoRet
    /\ trigger = [s \in SessionIds |-> NotInvoked]
    /\ gist = NoGist

ProcessValue ==
    /\ call.fn = "processSecretValue"
    /\ ret.stage = 0
    /\ \E iv \in IVs :
          ret' = [NoRet EXCEPT
                    !.stage = 1,
                    !.value = processSecretValue(call.secretKey, call.text,
                                  call.buildEnvironment,
                                  call.applicationNamespace, call.encKey,
                                  call.keysToEncrypt, iv)]
    /\ UNCHANGED <<heap, sessions, workflowRunIdMap, vault, reqs, resp, fired,
                   call, trigger, gist>>

EncryptValue ==
    /\ call.fn = "encryptValue"
    /\ ret.stage = 0
    /\ \E iv \in IVs :
          ret' = [NoRet EXCEPT !.stage = 1,
                               !.value = encryptValue(call.text, iv)]
    /\ UNCHANGED <<heap, sessions, workflowRunIdMap, vault, reqs, resp, fired,
                   call, trigger, gist>>

\* decryptValue applied to the string of the call, or to what the call of
\* one of the other two functions returned
DecryptValue ==
    /\ \/ call.fn = "decryptValue" /\ ret.stage = 0
       \/ call.fn \in {"encryptValue", "processSecretValue"} /\ ret.stage = 1
    /\ LET encryptedText == IF ret.stage = 0 THEN call.text ELSE ret.value
       IN  ret' = [stage |-> 2, value |-> decryptValue(encryptedText),
                   input |-> encryptedText]
    /\ UNCHANGED <<heap, sessions, workflowRunIdMap, vault, reqs, resp, fired,
                   call, trigger, gist>>

\* generateHash applied to the string of the call, once and once more;
\* ret.input is the string, ret.value what the latest call returned
GenerateHash ==
    /\ call.fn = "generateHash"
    /\ ret.stage \in {0, 1}
    /\ ret' = [stage |-> ret.stage + 1, value |-> generateHash(call.text),
               input |-> call.text]
    /\ UNCHANGED <<heap, sessions, workflowRunIdMap, vault, reqs, resp, fired,
                   call, trigger, gist>>

NextCrypto ==
    \/ ProcessValue
    \/ EncryptValue
    \/ DecryptValue
    \/ GenerateHash

SpecCrypto == InitCrypto /\ [][NextCrypto]_vars

(***************************************************************************)
(* Properties                                                              *)
(***************************************************************************)
NoDup(seq) == \A i, j \in 1..Len(seq) : seq[i] = seq[j] => i = j

CompletedKeys(session) ==
    [i \in 1..Len(session.completed) |-> session.completed[i].key]

\* slot r sends its response in this step
Responds(r) == reqs[r].pc # "idle" /\ reqs'[r].pc = "idle"

\* a stored session whose creation-time key list has n >= 1 distinct keys
DistinctKeyList(session) ==
    session.original # <<>> /\ NoDup(session.original)

IsPendingIn(session, key) == Includes(session.pending, key)

\* the keys of the creation-time list that have no completed entry, in the
\* order of the list
RECURSIVE NotYetSubmitted(_, _)
NotYetSubmitted(original, done) ==
    IF original = <<>> THEN <<>>
    ELSE IF Head(original) \in done THEN NotYetSubmitted(Tail(original), done)
    ELSE <<Head(original)>> \o NotYetSubmitted(Tail(original), done)

\* C1: in every reachable state of every stored session the pending keys
\* and the keys of completedEntries are disjoint, neither list names a key
\* twice, and their lengths add up to the length of the original key list.
C1_PendingCompletedPartition ==
    \A sid \in sessions :
        LET session == heap[sid]
            done == CompletedKeys(session)
        IN  /\ Range(session.pending) \cap Range(done) = {}
            /\ NoDup(session.pending)
            /\ NoDup(done)
            /\ Len(session.pending) + Len(done) = Len(session.original)

\* C2: in every reachable state of every stored session the status is
\* 'completed' if and only if pendingKeys is empty, and 'awaiting_input'
\* otherwise.
C2_StatusIffNoPending ==
    \A sid \in sessions :
        /\ heap[sid].status = "completed" <=> heap[sid].pending = <<>>
        /\ heap[sid].status = "awaiting_input" <=> heap[sid].pending # <<>>

\* C3: a submission whose key is not in pendingKeys when the state
\* transition is applied fails and leaves the session, the store and the
\* trigger count unchanged.
C3_NonPendingSubmitRejected ==
    [][\A r \in Reqs :
          ( /\ reqs[r].pc = "fetch"
            /\ Responds(r)
            /\ reqs[r].sid \in sessions
            /\ ~IsPendingIn(heap[reqs[r].sid], reqs[r].key) )
          => /\ resp'.status # 200
             /\ heap' = heap
             /\ fired' = fired]_vars

\* C4: triggerDownstreamWorkflow is invoked at most once per session, and
\* only by the step that takes pendingKeys from non-empty to empty.
C4_TriggerOnlyOnEmptying ==
    [][\A sid \in SessionIds :
          fired'[sid] # fired[sid]
          => /\ fired[sid] = 0
             /\ fired'[sid] = 1
             /\ heap[sid].pending # <<>>
             /\ heap'[sid].pending = <<>>]_vars

\* C5: for a session of n >= 1 distinct keys whose keys are submitted one
\* request per key, every successful response lists exactly the keys not
\* yet submitted, reports allCompleted exactly when that list is empty
\* (the n-th submission), and the trigger has then been invoked exactly
\* once, and not at all before.
C5_SequentialResponses ==
    (resp.kind = "submit" /\ resp.status = 200
        /\ DistinctKeyList(heap[resp.sid]))
    => LET session == heap[resp.sid]
           done == Range(CompletedKeys(session))
       IN  /\ resp.pendingKeys = NotYetSubmitted(session.original, done)
           /\ resp.allCompleted <=> resp.pendingKeys = <<>>
           /\ resp.allCompleted <=>
                 Len(session.completed) = Len(session.original)
           /\ fired[resp.sid] = IF resp.allCompleted THEN 1 ELSE 0

\* the second of two submissions, one per key, has answered allCompleted
C5_Witness ==
    /\ resp.kind = "submit" /\ resp.status = 200 /\ resp.allCompleted
    /\ heap[resp.sid].original = <<KeyA, KeyB>>
    /\ Len(heap[resp.sid].completed) = 2
    /\ fired[resp.sid] = 1
    /\ \A r \in Reqs : reqs[r].pc = "idle"

\* C6: when submissions for different pending keys of a session run
\* concurrently, the trigger is invoked at most once, exactly once when the
\* session has no pending key left, and then every key of the list has
\* exactly one completed entry.
C6_ConcurrentDistinctKeys ==
    \A sid \in DOMAIN heap :
        DistinctKeyList(heap[sid])
        => LET session == heap[sid]
               done == CompletedKeys(session)
           IN  /\ fired[sid] <= 1
               /\ fired[sid] = 1 <=> session.pending = <<>>
               /\ session.pending = <<>>
                     => Range(done) = Range(session.original) /\ NoDup(done)
               /\ (resp.kind = "submit" /\ resp.status = 200
                      /\ resp.sid = sid /\ resp.allCompleted)
                     => fired[sid] = 1 /\ session.pending = <<>>

\* one of two submissions in flight together has been applied, the one for
\* the last pending key is still waiting for the store
C6_Witness ==
    /\ resp.kind = "submit" /\ resp.status = 200 /\ ~resp.allCompleted
    /\ heap[resp.sid].original = <<KeyA, KeyB>>
    /\ \E r \in Reqs :
          /\ reqs[r].pc = "fetch"
          /\ reqs[r].sid = resp.sid
          /\ heap[resp.sid].pending = <<reqs[r].key>>

\* C7: when a submission succeeds, the store then holds the processed
\* value of the key under the key.
C7_StoreHoldsProcessedValue ==
    [][\A r \in Reqs :
          (reqs[r].pc = "fetch" /\ Responds(r) /\ resp'.status = 200)
          => /\ vault'.exists
             /\ reqs[r].key \in DOMAIN vault'.data
             /\ vault'.data[reqs[r].key] \in ProcessedValues(r)]_vars

\* C8: a submission by a user who is not a member of the team the key
\* requires is answered 403, and a submission answered 403 changes neither
\* the session (the key stays pending) nor the store nor the trigger count.
C8_ForbiddenMutatesNothing ==
    [][\A r \in Reqs :
          (reqs[r].pc = "verify" /\ reqs'[r] # reqs[r])
          => LET q == reqs[r]
                 session == heap[q.sid]
                 member == <<OrgNameOf(session), resolveTeamForSecret(q.key),
                             q.user>> \in Members
             IN  /\ ~member => resp'.status = 403
                 /\ resp'.status = 403
                       => /\ heap' = heap
                          /\ sessions' = sessions
                          /\ workflowRunIdMap' = workflowRunIdMap
                          /\ vault' = vault
                          /\ fired' = fired]_vars

\* a submission for a key that is still pending was answered 403
C8_Witness ==
    /\ resp.kind = "submit" /\ resp.status = 403
    /\ heap[resp.sid].pending # <<>>
    /\ heap[resp.sid].completed = <<>>

\* C9: get-session answers 403 with pendingCount = |pendingKeys| and
\* authorizedCount = 0 exactly when pendingKeys is non-empty and none of
\* its keys is authorized; otherwise it answers 200 with the authorized
\* keys of pendingKeys, in their order, and the status of the session.
\* The authorized keys are those the membership check confirmed for this
\* request: the keys of the list the handler answers with.  Stated for
\* sessions whose key list names no key twice, where this set is the same
\* for every occurrence of a key.
C9_GetSessionView ==
    (resp.kind = "get" /\ resp.status \in {200, 403}
        /\ NoDup(heap[resp.sid].original))
    => LET session == heap[resp.sid]
           confirmed == Range(resp.pendingKeys)
           authorized == NotYetSubmitted(session.pending,
                                         Range(session.pending) \ confirmed)
       IN  /\ resp.status = 403
                <=> (session.pending # <<>> /\ authorized = <<>>)
           /\ resp.status = 403
                => /\ resp.pendingCount = Len(session.pending)
                   /\ resp.authorizedCount = 0
           /\ resp.status = 200
                => /\ resp.pendingKeys = authorized
                   /\ resp.sessionStatus = session.status

\* C10: registration with an empty parsed key list or without a run
\* identifier registers no session: every stored session has at least one
\* original key and a run identifier, and is in the run-id index.
C10_NoSessionWithoutKeys ==
    /\ \A sid \in sessions :
          /\ heap[sid].original # <<>>
          /\ heap[sid].runId # Absent
    /\ (resp.kind = "register" /\ resp.status = 200) => resp.pendingCount > 0

\* C11: every entry of the run-id index refers to a session that is in the
\* session map and whose own run identifier is the key of the entry.
C11_IndexNeverDangles ==
    \A w \in RunIds :
        workflowRunIdMap[w] # 0
        => /\ workflowRunIdMap[w] \in sessions
           /\ heap[workflowRunIdMap[w]].runId = w

\* sessions were registered for both run identifiers, one of them was
\* submitted to and purged, and the index still has an entry
C11_Witness ==
    /\ Len(heap) = MaxStoreSessions
    /\ \E sid \in DOMAIN heap :
          sid \notin sessions /\ heap[sid].status = "completed"
    /\ \E w \in RunIds : workflowRunIdMap[w] \in sessions
    /\ \E w \in RunIds : workflowRunIdMap[w] = 0

\* C12: for every session S in the session map the lookup by S's run
\* identifier finds a session of that run identifier, never null.
C12_LookupFindsEveryStoredSession ==
    \A sid \in sessions :
        LET found == findSessionByWorkflowRunId(heap[sid].runId)
        IN  /\ found # 0
            /\ heap[found].runId = heap[sid].runId

\* C13: purgeSession answers true and takes the session out of the session
\* map and the run-id index when the session is there, answers false and
\* changes nothing when it is not, and answers false when called again with
\* the same identifier; purgeCompletedSessions called twice in a row
\* answers purged = 0 with the same remaining count the second time and
\* leaves the store as it is.
C13_PurgeIdempotent ==
    [][/\ resp'.kind = "purgeSession"
          => LET id == resp'.sid
             IN  /\ resp'.result = (id \in sessions)
                 /\ id \in sessions
                       => /\ sessions' = sessions \ {id}
                          /\ \A w \in RunIds :
                                workflowRunIdMap'[w] =
                                   IF workflowRunIdMap[w] = id
                                   THEN 0 ELSE workflowRunIdMap[w]
                 /\ id \notin sessions
                       => UNCHANGED <<heap, sessions, workflowRunIdMap>>
                 /\ (resp.kind = "purgeSession" /\ resp.sid = id)
                       => resp'.result = FALSE
       /\ (resp'.kind = "purgeCompletedSessions"
              /\ resp.kind = "purgeCompletedSessions")
          => /\ resp'.purged = 0
             /\ resp'.remaining = resp.remaining
             /\ UNCHANGED <<heap, sessions, workflowRunIdMap>>]_vars

\* purgeSession has answered true for a session that was in the index,
\* and other sessions are still stored
C13_Witness ==
    /\ resp.kind = "purgeSession" /\ resp.result
    /\ resp.sid \notin sessions
    /\ workflowRunIdMap[heap[resp.sid].runId] = 0
    /\ sessions # {}

AddedRecords(log, n) == SubSeq(log, n + 1, Len(log))

\* C16: across every step the audit log of every session keeps its
\* records and only gets new ones at its end, and a successful submission
\* appends exactly one secret_submitted record, for the submitted key.
C16_AuditOnlyGrows ==
    [][/\ \A sid \in DOMAIN heap :
             /\ Len(heap'[sid].audit) >= Len(heap[sid].audit)
             /\ SubSeq(heap'[sid].audit, 1, Len(heap[sid].audit))
                   = heap[sid].audit
       /\ \A r \in Reqs :
             (reqs[r].pc = "fetch" /\ Responds(r) /\ resp'.status = 200)
             => LET sid == reqs[r].sid
                    added == AddedRecords(heap'[sid].audit,
                                          Len(heap[sid].audit))
                    submitted == {i \in DOMAIN added :
                                    added[i].action = "secret_submitted"}
                IN  /\ Cardinality(submitted) = 1
                    /\ \A i \in submitted : added[i].key = reqs[r].key]_vars

\* a second submission was recorded after the first
C16_Witness ==
    /\ resp.kind = "submit" /\ resp.status = 200
    /\ LET audit == heap[resp.sid].audit
       IN  Cardinality({i \in DOMAIN audit :
                           audit[i].action = "secret_submitted"}) = 2

C18_RoundTrip ==
    /\ (call.fn = "encryptValue" /\ ret.stage = 2) => ret.value = call.text
    /\ (call.fn = "decryptValue" /\ ret.stage = 2
           /\ ~StartsWith(call.text, EncPrefix))
          => ret.value = call.text

\* a plaintext that itself looks like an envelope went through
\* encryptValue and decryptValue
C18_Witness ==
    /\ call.fn = "encryptValue" /\ ret.stage = 2
    /\ call.text = EncPrefix \o <<"x", Colon, "x", Colon, "x">>
    /\ ret.input # call.text
    /\ ret.value = call.text

\* C19: a value that processSecretValue encrypted (rule (c), encryptSecret)
\* starts with the 'enc:' tag and has the nonce, the authentication tag
\* and the ciphertext as its fields, so that decryptValue does not return
\* it unchanged but returns the submitted plaintext.
C19_SessionPathEnvelope ==
    ( /\ call.fn = "processSecretValue"
      /\ ret.stage = 2
      /\ ~(call.secretKey = KeyStorePasswordKey
             /\ call.buildEnvironment \in {"hodc", "pcdc"})
      /\ call.secretKey # EncryptionKeyKey
      /\ Includes(call.keysToEncrypt, call.secretKey) )
    => /\ StartsWith(ret.input, EncPrefix)
       /\ Len(SplitColon(ret.input)) = 4
       /\ ret.value # ret.input
       /\ ret.value = call.text

\* the fields of str after the tag: the nonce, the tag, the ciphertext
\* (and more, if there are more)
Fields(str) == Tail(SplitColon(str))

\* str carries the prefix and is not an envelope that verifies under
\* ENCRYPTION_KEY: not four fields, a field with a character that is not
\* a hexadecimal digit, or a tag that is not the one of the key, the nonce
\* and the ciphertext
Malformed(str) ==
    /\ StartsWith(str, EncPrefix)
    /\ \/ Len(SplitColon(str)) # 4
       \/ \E i \in 1..3 : Range(Fields(str)[i]) \ HexDigits # {}
       \/ Len(Fields(str)[1]) # 1
       \/ Fields(str)[2] # AuthTag(ENCRYPTION_KEY, Fields(str)[1][1],
                                   Fields(str)[3])

\* C20: decryptValue returns its input unchanged for every input that
\* carries the 'enc:' prefix and is malformed or does not verify.
C20_BadEnvelopeUnchanged ==
    (call.fn = "decryptValue" /\ ret.stage = 2 /\ Malformed(call.text))
    => ret.value = call.text

\* C24: whenever the environment of the session is neither dev nor sit,
\* an invocation of triggerDownstreamWorkflow returns the skipped result
\* with a reason: it sends no dispatch call and throws nothing, also for a
\* session without GIT_TOKEN.
C24_NoJobMeansSkipped ==
    [][\A sid \in DOMAIN heap :
          ( /\ fired'[sid] > fired[sid]
            /\ heap[sid].ctx.build_env \notin {"dev", "DEV", "sit", "SIT"} )
          => /\ trigger'[sid].outcome = "skipped"
             /\ trigger'[sid].detail # Absent]_vars

\* C25: a dispatch that fails (refused or unanswered call, missing
\* GIT_TOKEN) leaves the session completed with no pending key and its
\* entries and audit log as the submission left them; the submission that
\* fired is answered 200 with allCompleted; and only a submission invokes
\* the trigger again.
C25_FailedDispatchKeepsSession ==
    [][\A sid \in DOMAIN heap :
          /\ ( /\ trigger'[sid].outcome \in {"failed", "threw"}
               /\ fired'[sid] = fired[sid]
               /\ trigger'[sid] # trigger[sid] )
             => /\ heap' = heap
                /\ sessions' = sessions
                /\ heap[sid].status = "completed"
                /\ heap[sid].pending = <<>>
          /\ ( /\ trigger'[sid].outcome \in {"failed", "threw"}
               /\ fired'[sid] # fired[sid] )
             => /\ resp'.kind = "submit"
                /\ resp'.status = 200
                /\ resp'.allCompleted
                /\ heap'[sid].status = "completed"
                /\ heap'[sid].pending = <<>>
                /\ Len(heap'[sid].completed) = Len(heap[sid].completed) + 1
          /\ ( \/ fired'[sid] # fired[sid]
               \/ /\ trigger'[sid].outcome = "pending"
                  /\ trigger[sid].outcome # "pending" )
             => \E r \in Reqs :
                   /\ reqs[r].pc = "fetch"
                   /\ Responds(r)
                   /\ reqs[r].sid = sid]_vars

\* the dispatch of a completed session has failed
C25_Witness ==
    \E sid \in DOMAIN heap :
        /\ trigger[sid].outcome = "failed"
        /\ heap[sid].status = "completed"
        /\ Len(heap[sid].completed) = 1
        /\ fired[sid] = 1

\* key, without regard to case, has pattern as a substring
HasSubstring(key, pattern) ==
    \E i \in 0..(Len(key) - Len(pattern)) :
        \A j \in 1..Len(pattern) : Lower(key[i + j]) = Lower(pattern[j])

\* C21: resolveTeamForSecret returns, for every key, the team of the first
\* rule of the list, the wildcard left out, whose pattern is a substring of
\* the key without regard to case, and the team of the wildcard rule when
\* there is none; the result is always a team of the configuration.
C21_FirstMatchOrWildcard ==
    (call.fn = "resolveTeamForSecret" /\ ret.stage = 1)
    => LET rules == secretTeamConfig
           hit(i) == /\ rules[i].pattern # <<"*">>
                     /\ HasSubstring(call.secretKey, rules[i].pattern)
       IN  /\ \A i \in DOMAIN rules :
                 (hit(i) /\ \A j \in 1..(i - 1) : ~hit(j))
                 => ret.value = <<rules[i].teamSlug>>
           /\ (\A i \in DOMAIN rules : ~hit(i))
                 => \E i \in DOMAIN rules :
                       /\ rules[i].pattern = <<"*">>
                       /\ ret.value = <<rules[i].teamSlug>>
           /\ \E i \in DOMAIN rules : ret.value = <<rules[i].teamSlug>>

\* a key in upper case that two patterns match got the team of the first
C21_Witness ==
    /\ call.fn = "resolveTeamForSecret" /\ ret.stage = 1
    /\ call.secretKey = <<"x", "B", "x">>
    /\ ret.value = <<"team-b">>

\* C22: verifyKeyAccess returns true only when the session has an
\* organisation and the membership request is answered with an active
\* membership of the user in the team of the key; for a request that
\* fails, is answered not-found, non-success or with another state, and
\* for a missing organisation, it returns false.
C22_FailClosed ==
    (call.fn = "verifyKeyAccess" /\ ret.stage = 1)
    => /\ ret.value \in {<<"true">>, <<"false">>}
       /\ ret.value = <<"true">>
             <=> ( /\ call.orgName # Absent
                   /\ call.replies[1] = "active" )
       /\ ret.value = <<"true">>
             => \E i \in DOMAIN secretTeamConfig :
                   /\ <<call.orgName, secretTeamConfig[i].teamSlug,
                         call.user>> \in Members
                   /\ resolveTeamForSecret(call.secretKey)
                         = secretTeamConfig[i].teamSlug

\* the membership request of a member failed and access was refused
C22_Witness ==
    /\ call.fn = "verifyKeyAccess" /\ ret.stage = 1
    /\ call.user = "alice"
    /\ call.orgName = "DevOps"
    /\ call.replies[1] \in {"error", "throws"}
    /\ ret.value = <<"false">>

\* the keys of keys, from position i on, that verifyKeyAccess grants the
\* user for the same answers of the membership requests
RECURSIVE GrantedFrom(_, _, _, _, _)
GrantedFrom(user, keys, orgName, replies, i) ==
    IF i > Len(keys) THEN <<>>
    ELSE IF verifyKeyAccess(user, keys[i], AccessSession(orgName), replies[i])
    THEN <<keys[i]>> \o GrantedFrom(user, keys, orgName, replies, i + 1)
    ELSE GrantedFrom(user, keys, orgName, replies, i + 1)

\* C23: filterAuthorizedKeys returns exactly the keys of its input for
\* which verifyKeyAccess is true for the same user and session, in the
\* order of the input, also for a session without an organisation.
C23_FilterIsVerifyPerKey ==
    (call.fn = "filterAuthorizedKeys" /\ ret.stage = 1)
    => ret.value = GrantedFrom(call.user, call.keys, call.orgName,
                               call.replies, 1)

\* the sum, over the stored sessions numbered up to n, of the length of
\* the pending list
RECURSIVE PendingUpTo(_)
PendingUpTo(n) ==
    IF n = 0 THEN 0
    ELSE (IF n \in sessions THEN Len(heap[n].pending) ELSE 0)
         + PendingUpTo(n - 1)

\* the same for the completed entries
RECURSIVE CompletedUpTo(_)
CompletedUpTo(n) ==
    IF n = 0 THEN 0
    ELSE (IF n \in sessions THEN Len(heap[n].completed) ELSE 0)
         + CompletedUpTo(n - 1)

\* C26: the statistics query changes no session, index entry, vault value
\* or request; its total is the number of stored sessions and equals
\* awaitingInput + completed, and totalPendingSecrets and
\* totalCompletedSecrets are the sums of the lengths of the pending lists
\* and of the completed entries over the stored sessions.
C26_StatsReadOnlyAndConsistent ==
    [][resp'.kind = "health"
       => /\ UNCHANGED <<heap, sessions, workflowRunIdMap, vault, reqs,
                         fired, trigger>>
          /\ resp'.stats.total = Cardinality(sessions)
          /\ resp'.stats.total
                = resp'.stats.awaitingInput + resp'.stats.completed
          /\ resp'.stats.awaitingInput
                = Cardinality({s \in sessions :
                                 heap[s].status = "awaiting_input"})
          /\ resp'.stats.totalPendingSecrets = PendingUpTo(Len(heap))
          /\ resp'.stats.totalCompletedSecrets = CompletedUpTo(Len(heap))]_vars

\* statistics taken with one session purged, one completed and one waiting
C26_Witness ==
    /\ resp.kind = "health"
    /\ Len(heap) = 3
    /\ resp.stats.total = 2
    /\ resp.stats.awaitingInput = 1
    /\ resp.stats.completed = 1
    /\ resp.stats.totalPendingSecrets = 1
    /\ resp.stats.totalCompletedSecrets >= 1

\* C27: no completed entry of any session holds the submitted value or
\* the value processSecretValue made of it: an entry is the key, the
\* submitter and the constant mask (the timestamp is left out of the
\* model), whatever was submitted.
C27_CompletedEntriesMasked ==
    [][ /\ \A sid \in DOMAIN heap' :
             \A i \in DOMAIN heap'[sid].completed :
                LET entry == heap'[sid].completed[i]
                IN  /\ DOMAIN entry = {"key", "encryptedValue", "submittedBy"}
                    /\ entry.encryptedValue = Mask
        /\ \A r \in Reqs :
             ( /\ reqs[r].pc = "fetch"
               /\ reqs'[r].pc = "idle"
               /\ heap' # heap )
             => LET q == reqs[r]
                    completed == heap'[q.sid].completed
                    entry == completed[Len(completed)]
                IN  /\ Len(completed) = Len(heap[q.sid].completed) + 1
                    /\ entry.key = q.key
                    /\ entry.submittedBy = q.user
                    /\ entry.encryptedValue # q.val
                    /\ entry.encryptedValue \notin ProcessedValues(r) ]_vars

\* a key of the encryption list was submitted with a value and is recorded
C27_Witness ==
    \E sid \in DOMAIN heap :
       /\ heap[sid].completed # <<>>
       /\ heap[sid].completed[1].key \in Range(heap[sid].keysToEncrypt)
       /\ heap[sid].completed[1].encryptedValue = Mask
       /\ resp.kind = "submit" /\ resp.status = 200

AllCompletedAt(audit) ==
    {i \in DOMAIN audit : audit[i].action = "all_secrets_completed"}

\* C29: the audit log of a session has exactly one all_secrets_completed
\* record when the session is completed and none otherwise; the record
\* comes directly after the secret_submitted record that left no key
\* pending; and the trigger was invoked for the session as many times as
\* there are such records.
C29_OneCompletionRecordOneTrigger ==
    \A sid \in DOMAIN heap :
       LET audit == heap[sid].audit
           n == Cardinality(AllCompletedAt(audit))
       IN  /\ heap[sid].status = "completed" => n = 1
           /\ heap[sid].status # "completed" => n = 0
           /\ \A i \in AllCompletedAt(audit) :
                 /\ i > 1
                 /\ audit[i - 1].action = "secret_submitted"
                 /\ audit[i - 1].remainingPending = 0
           /\ fired[sid] = n

\* C30: keyStatus of a session is defined on exactly the keys of the key
\* list the session was created with; a key is 'pending' there exactly
\* when it is in pendingKeys and 'completed' exactly when it has a
\* completed entry; so no step adds a key from outside the list.
C30_KeyStatusMatchesLists ==
    \A sid \in DOMAIN heap :
       LET session == heap[sid]
       IN  /\ DOMAIN session.keyStatus = Range(session.original)
           /\ \A k \in DOMAIN session.keyStatus :
                 /\ session.keyStatus[k] \in {"pending", "completed"}
                 /\ session.keyStatus[k] = "pending"
                       <=> Includes(session.pending, k)
                 /\ session.keyStatus[k] = "completed"
                       <=> k \in Range(CompletedKeys(session))
           /\ Range(session.pending) \subseteq Range(session.original)
           /\ Range(CompletedKeys(session)) \subseteq Range(session.original)

\* one key of two is completed, the other still pending
C30_Witness ==
    \E sid \in DOMAIN heap :
       /\ DOMAIN heap[sid].keyStatus = {KeyA, KeyB}
       /\ heap[sid].keyStatus[KeyA] = "completed"
       /\ heap[sid].keyStatus[KeyB] = "pending"
       /\ heap[sid].pending = <<KeyB>>

\* C31: a submission that passed the access check and fails because the
\* session has no Vault URL or token, or because the fetch is answered
\* with a status that is neither success nor 404, is answered 500, and the
\* step changes no session, no trigger count and no index: the key is as
\* pending as before, nothing is added to completed or audit, and a key
\* that was pending passes the pending test of the next submission.
C31_StoreFailureLeavesSession ==
    [][\A r \in Reqs :
         ( /\ Responds(r)
           /\ reqs[r].pc \in {"verify", "fetch"}
           /\ resp'.error.body
                 \in {"Vault configuration missing", "Vault fetch failed"} )
         => /\ resp'.kind = "submit" /\ resp'.status = 500
            /\ resp'.error.body = "Vault fetch failed"
                  => resp'.error.status \notin {200, 404}
            /\ heap' = heap
            /\ sessions' = sessions
            /\ workflowRunIdMap' = workflowRunIdMap
            /\ fired' = fired
            /\ trigger' = trigger
            /\ (reqs[r].sid \in sessions
                  /\ Includes(heap[reqs[r].sid].pending, reqs[r].key))
                  => /\ reqs[r].sid \in sessions'
                     /\ Includes(heap'[reqs[r].sid].pending, reqs[r].key)
       ]_vars

\* the fetch was refused and the key is still pending, nothing recorded
C31_Witness ==
    /\ resp.kind = "submit" /\ resp.status = 500
    /\ resp.error = [status |-> 403, body |-> "Vault fetch failed"]
    /\ resp.sid \in sessions
    /\ heap[resp.sid].pending = <<KeyA>>
    /\ heap[resp.sid].completed = <<>>
    /\ heap[resp.sid].audit = <<>>
    /\ fired[resp.sid] = 0

\* C32: when updateSingleVaultKey calls for different keys of one secret
\* path interleave, a write changes the value of its own key only: every
\* other key the path holds at the time of the write keeps its value, so
\* after both calls the path holds the new values of both keys.
C32_ConcurrentWritesKeepOtherFields ==
    [][\A r \in Reqs :
         ( /\ reqs[r].pc = "push"
           /\ reqs'[r].pc = "idle"
           /\ resp'.result
           /\ vault.exists )
         => \A k \in DOMAIN vault.data \ {reqs[r].key} :
               /\ k \in DOMAIN vault'.data
               /\ vault'.data[k] = vault.data[k]]_vars

\* C33: purgeCompletedSessions removes from the session map exactly the
\* sessions that are 'completed' when it is called and clears exactly the
\* index entries that name them; sessions awaiting input and their index
\* entries stay as they are; purged is the number of removed sessions and
\* purged + remaining the number of sessions before the call.
C33_PurgeCompletedExact ==
    [][resp'.kind = "purgeCompletedSessions"
       => LET removed == {s \in sessions : heap[s].status = "completed"}
          IN  /\ sessions' = sessions \ removed
              /\ \A s \in sessions' : heap'[s].status = "awaiting_input"
              /\ heap' = heap
              /\ \A w \in DOMAIN workflowRunIdMap :
                    workflowRunIdMap'[w] =
                       IF workflowRunIdMap[w] \in removed
                       THEN 0 ELSE workflowRunIdMap[w]
              /\ resp'.purged = Cardinality(removed)
              /\ resp'.purged + resp'.remaining = Cardinality(sessions)
              /\ resp'.remaining = Cardinality(sessions')]_vars

\* a purge removed a completed session and its index entry and kept a
\* session awaiting input with its index entry
C33_Witness ==
    /\ resp.kind = "purgeCompletedSessions"
    /\ resp.purged >= 1
    /\ resp.remaining >= 1
    /\ \E s \in DOMAIN heap \ sessions :
          /\ heap[s].status = "completed"
          /\ workflowRunIdMap[heap[s].runId] = 0
    /\ \E w \in DOMAIN workflowRunIdMap :
          /\ workflowRunIdMap[w] \in sessions
          /\ heap[workflowRunIdMap[w]].status = "awaiting_input"

\* session T, its place in the session map and the index entries that
\* name it are the same after the step
Untouched(T) ==
    /\ heap'[T] = heap[T]
    /\ T \in sessions' <=> T \in sessions
    /\ \A w \in DOMAIN workflowRunIdMap :
          workflowRunIdMap[w] = T => workflowRunIdMap'[w] = T

\* C34: every step of a submit-secret or get-session request on session S,
\* and a purge of S, leaves every other session as it is: its pending
\* keys, completed entries, key status, status and audit log, its place in
\* the session map and the index entries that name it.
C34_OtherSessionsUntouched ==
    [][ /\ \A r \in Reqs :
             reqs'[r] # reqs[r]
             => LET S == IF reqs[r].pc = "idle" THEN reqs'[r].sid
                                                ELSE reqs[r].sid
                IN  \A T \in DOMAIN heap \ {S} : Untouched(T)
        /\ resp'.kind \in {"submit", "get", "purgeSession"}
             => \A T \in DOMAIN heap \ {resp'.sid} : Untouched(T) ]_vars

\* a submission on session 1 was recorded while a request on session 2 is
\* in flight; session 2 has nothing recorded and keeps its index entry
C34_Witness ==
    /\ resp.kind = "submit" /\ resp.status = 200 /\ resp.sid = 1
    /\ heap[1].completed # <<>>
    /\ 2 \in sessions
    /\ heap[2].completed = <<>> /\ heap[2].audit = <<>>
    /\ workflowRunIdMap[heap[2].runId] = 2
    /\ \E r \in Reqs : reqs[r].pc # "idle" /\ reqs[r].sid = 2

\* the user is a member of the team of the key in the session's
\* organisation
Authorized(user, key, session) ==
    /\ OrgNameOf(session) # Absent
    /\ <<OrgNameOf(session), resolveTeamForSecret(key), user>> \in Members

\* C36: a response to a user names no pending key the user is not
\* authorized for: the pending list and the pending entries of the status
\* map of a get-session response, and the remaining pendingKeys of a
\* submit-secret response, hold keys of the user's teams only.  So two
\* sessions that differ in pending keys outside the user's teams get the
\* same responses.
C36_NoUnauthorizedKeyNames ==
    [][\A r \in Reqs :
         (Responds(r) /\ resp'.status = 200 /\ resp'.kind \in {"get", "submit"})
         => LET q == reqs[r]
                session == heap[q.sid]
            IN  /\ \A i \in DOMAIN resp'.pendingKeys :
                      Authorized(q.user, resp'.pendingKeys[i], session)
                /\ \A k \in DOMAIN resp'.keyStatus :
                      resp'.keyStatus[k] = "pending"
                      => Authorized(q.user, k, session)]_vars

\* C35: in every step the pending keys of a session are keys that were
\* pending before, no more of them than before, and a session that is
\* 'completed' is 'completed' after the step, whatever request arrives.
C35_CompletionStable ==
    [][\A sid \in DOMAIN heap :
         /\ Range(heap'[sid].pending) \subseteq Range(heap[sid].pending)
         /\ Len(heap'[sid].pending) <= Len(heap[sid].pending)
         /\ heap[sid].status = "completed"
               => /\ heap'[sid].status = "completed"
                  /\ heap'[sid].pending = <<>>]_vars

\* a second submission of the key arrived at a session already completed,
\* and the session is completed still
C35_Witness ==
    \E sid \in DOMAIN heap :
       /\ heap[sid].status = "completed"
       /\ heap[sid].pending = <<>>
       /\ Len(heap[sid].completed) > Cardinality(Range(heap[sid].original))

\* C37: a submission whose session was purged after the handler looked it
\* up ends with an error response; the step stores no session, leaves the
\* session out of the session map and of the run-id index, records
\* nothing and does not invoke the trigger.
C37_PurgedSessionStaysPurged ==
    [][\A r \in Reqs :
         ( /\ reqs[r].pc \in {"verify", "fetch"}
           /\ reqs[r].sid \notin sessions
           /\ reqs'[r] # reqs[r] )
         => /\ reqs'[r].pc = "idle" => resp'.status \in {403, 500}
            /\ reqs[r].sid \notin sessions'
            /\ \A w \in DOMAIN workflowRunIdMap :
                  workflowRunIdMap'[w] # reqs[r].sid
            /\ heap' = heap
            /\ fired' = fired
            /\ trigger' = trigger]_vars

\* the session was purged while its submission waited for the Vault fetch,
\* and the submission was answered 'Session not found'
C37_Witness ==
    /\ resp.kind = "submit" /\ resp.status = 500
    /\ resp.error.body = "Session not found"
    /\ resp.sid \in DOMAIN heap
    /\ resp.sid \notin sessions
    /\ heap[resp.sid].completed = <<>>
    /\ fired[resp.sid] = 0

\* C40: a GET request for /api/sessions/stats by an authenticated user is
\* answered by the statistics handler, with the statistics of the stored
\* sessions, and not by the session-by-id handler.
C40_StatsPathReachesStatsHandler ==
    [][resp'.path = StatsPath
       => /\ resp'.kind = "stats"
          /\ resp'.status = 200
          /\ resp'.stats = getSessionStats(heap, sessions)]_vars

\* the variable is one fetchGist is to list: its value is TBC or TBD and
\* its status is 'open' or not set
OpenInGist(content, k) ==
    /\ k \in DOMAIN content.variables
    /\ \E marker \in {TBC, TBD} :
          LET v == Trim(content.variables[k])
          IN  /\ Len(v) = Len(marker)
              /\ \A i \in 1..Len(v) : Upper(v[i]) = marker[i]
    /\ \/ k \notin DOMAIN content.key_status
       \/ content.key_status[k] \in {Absent, "open", "Open", "OPEN"}

C39_GistUpdateOnlyPendingKeys ==
    [][\A r \in Reqs :
         (reqs[r].pc = "patch" /\ reqs'[r].pc = "idle")
         => IF \A k \in DOMAIN reqs[r].body :
                  k # KeyStatusName /\ OpenInGist(reqs[r].content, k)
            THEN TRUE
            ELSE resp'.status # 200 /\ gist' = gist]_vars

====
